---- MODULE Spec2Model ----
(***************************************************************************)
(* Model of atlas::Serial::SerialImpl (lib_atlas/io/details/               *)
(* serial_impl_inl.h): the POSIX serial-port transport.                    *)
(*                                                                         *)
(* The object's fields keep their source names.  The operating system is   *)
(* modelled by the table of open descriptors (os_fds), the line settings   *)
(* of the device (line) and the outcome of each system call, which is      *)
(* drawn nondeterministically where the call can fail.                     *)
(***************************************************************************)
EXTENDS Integers, Sequences, FiniteSets, TLC

\* ------------------------------------------------------------------ bounds
\* Number of descriptors the process may hold: ::open fails with EMFILE
\* once they are all in use.
MaxHandles == 2
\* Number of EINTR results the system calls of one call may give.
MaxIntr == 1
\* Number of calls made on the object after the initial state.
MaxCalls == 3
\* Number of calls the threads of the loopback make in all.
MaxLoopCalls == 7

\* ------------------------------------------------- enumerations (serial.h)
fivebits == 5
sixbits == 6
sevenbits == 7
eightbits == 8
parity_none == 0
parity_odd == 1
parity_even == 2
parity_mark == 3
parity_space == 4
stopbits_one == 1
stopbits_two == 2
stopbits_one_point_five == 3
flowcontrol_none == 0
flowcontrol_software == 1
flowcontrol_hardware == 2

\* The closed sentinel of fd_.
NoFd == -1

\* Descriptors ::open can return.
Fds == 3..(2 + MaxHandles)

\* Values the callers pass.  9, 5 and 4 stand for values outside the
\* enumerations (a cast integer), 12345 for a rate with no B<rate> constant.
Ports == {"", "ttyS0"}
Bauds == {9600, 12345}
ByteSizes == {eightbits, 9}
Parities == {parity_none, parity_mark}
StopBits == {stopbits_one, 4}
FlowControls == {flowcontrol_none, flowcontrol_hardware}

\* Rates with a B<rate> constant (the cases of the switch).
EnumeratedBauds == {0, 50, 75, 110, 134, 150, 200, 300, 600, 1200, 1800, 2400,
                    4800, 7200, 9600, 14400, 19200, 28800, 57600, 76800,
                    38400, 115200, 128000, 153600, 230400, 256000, 460800,
                    576000, 921600, 1000000, 1152000, 1500000, 2000000,
                    2500000, 3000000, 3500000, 4000000}

\* The builds the preprocessor distinguishes: Linux (TIOCSSERIAL, CMSPAR,
\* TIOCMIWAIT), OS X (IOSSIOSPEED, no CMSPAR, no TIOCMIWAIT) and a POSIX
\* system with none of the extensions.
Platforms == {"linux", "osx", "posix"}

\* Calling threads: "c" makes the lifecycle, configuration and control calls,
\* "r" is a reader and "w" a writer.
Threads == {"c", "r", "w"}

VARIABLES
    platform,       \* the build
    port_, fd_, is_open_,
    xonxoff_, rtscts_,
    baudrate_, parity_, bytesize_, stopbits_, flowcontrol_,
    byte_time_ns_,
    timeout_,
    read_mutex, write_mutex,   \* "free" or the thread holding the mutex
    os_fds,         \* descriptors the process holds open
    peer,           \* "live": the peer sends and accepts bytes; "quiet": not;
                    \* "loop": the device receives what is written to it
    sent,           \* number of bytes the peer has sent
    rxbuf,          \* bytes the device received that no ::read has taken
    lines,          \* the modem status lines that are asserted
    call,           \* per thread: the call in progress and its locals
    last,           \* per thread: its last finished call, outcome, system calls
    consumed,       \* history: bytes ::read handed out, in order
    returned,       \* history: bytes Read calls returned to their callers
    wire,           \* history: bytes ::write accepted, in order
    faulted,        \* history: a Read threw after it had taken bytes
    ncalls          \* number of calls started

cfgvars == <<baudrate_, parity_, bytesize_, stopbits_, flowcontrol_>>
derivedvars == <<xonxoff_, rtscts_, byte_time_ns_>>
lockvars == <<read_mutex, write_mutex>>
devvars == <<peer, sent, rxbuf, lines>>
histvars == <<consumed, returned, wire, faulted>>
vars == <<platform, port_, fd_, is_open_, xonxoff_, rtscts_, baudrate_,
          parity_, bytesize_, stopbits_, flowcontrol_, byte_time_ns_,
          timeout_, read_mutex, write_mutex, os_fds, peer, sent, rxbuf,
          lines, call, last, consumed, returned, wire, faulted, ncalls>>

\* ---------------------------------------------------------------- helpers
\* The record of a finished call: res is "ok" or the exception thrown, val the
\* value returned (for a setter, the value it was given), size the size asked
\* of a Read or Write that got past its is_open_ test and id its number, os
\* the system calls issued on the handle, reconf whether
\* ReconfigurePort ran, applied the options handed to tcsetattr (if any).
Call(op, res, val, os, reconf, applied) ==
    [op |-> op, res |-> res, val |-> val, os |-> os, reconf |-> reconf,
     applied |-> applied, size |-> 0, id |-> 0]

NoCall == Call("none", "ok", 0, <<>>, FALSE, <<>>)

\* Locals of a call in progress; id is the number of the call.
Idle ==
    [pc |-> "idle", size |-> 0, n |-> 0, buf |-> <<>>, total |-> 0,
     elapsed |-> 0, until |-> 0, slept |-> 0, intr |-> 0, os |-> <<>>,
     id |-> 0, changed |-> FALSE]

Min(a, b) == IF a < b THEN a ELSE b

\* ------------------------------------------------------- ReconfigurePort
\* uint32_t bit_time_ns = 1e9 / baudrate_ (baud > 0).
BitTimeNs(baud) == 1000000000 \div baud

\* byte_time_ns_ as ReconfigurePort computes it: the enumerators enter the sum
\* with their integer values; for stopbits_one_point_five (3) the double
\* (1.5 - 3) * bit_time_ns is added and the sum truncated to uint32_t.
\* For every rate of 8 baud and more the product stays below 2^31, so the
\* uint32_t arithmetic does not wrap.
ByteTimeNs(baud, bytesize, parity, stopbits) ==
    LET bit == BitTimeNs(baud)
        bt == bit * (1 + bytesize + parity + stopbits)
    IN  IF stopbits = stopbits_one_point_five
        THEN (2 * bt - 3 * bit) \div 2
        ELSE bt

\* The values the conversion of 1e9 / 0 to uint32_t can leave in
\* byte_time_ns_: the conversion of an infinite double is undefined.  0 is
\* what the truncating conversion of x86-64 gives; the largest integer of the
\* model stands for what a saturating conversion gives.
UndefinedTimes == {0, 2147483647}

\* The values ReconfigurePort can leave in byte_time_ns_ for the fields c.
ByteTimes(c) ==
    IF c.baud = 0 THEN UndefinedTimes
    ELSE {ByteTimeNs(c.baud, c.bytesize, c.parity, c.stopbits)}

\* What the flow-control block leaves in <<xonxoff_, rtscts_>>.
FlowFlags(flow, xon, rts) ==
    IF flow = flowcontrol_none THEN <<FALSE, FALSE>>
    ELSE IF flow = flowcontrol_software THEN <<TRUE, FALSE>>
    ELSE IF flow = flowcontrol_hardware THEN <<FALSE, TRUE>>
    ELSE <<xon, rts>>

ValidByteSize(b) == b \in {fivebits, sixbits, sevenbits, eightbits}
ValidStopBits(s) ==
    s \in {stopbits_one, stopbits_one_point_five, stopbits_two}
\* Mark and space parity need CMSPAR, which only the Linux build has.
ValidParity(p) ==
    \/ p \in {parity_none, parity_even, parity_odd}
    \/ p \in {parity_mark, parity_space} /\ platform = "linux"

\* The options ReconfigurePort hands to tcsetattr.  speed is 0 on the custom
\* path, where cfsetispeed/cfsetospeed are skipped.
Options(c, xon, rts) ==
    [raw |-> TRUE,
     speed |-> IF c.baud \in EnumeratedBauds THEN c.baud ELSE 0,
     csize |-> c.bytesize,
     cstopb |-> c.stopbits # stopbits_one,
     par |-> c.parity,
     ixon |-> xon,
     crtscts |-> rts,
     vmin |-> 0, vtime |-> 0]

\* The system calls of the custom-rate path of the build.
CustomCalls ==
    IF platform = "osx" THEN <<"ioctl_IOSSIOSPEED">>
    ELSE IF platform = "linux" THEN <<"ioctl_TIOCGSERIAL", "ioctl_TIOCSSERIAL">>
    ELSE <<>>

\* The configuration fields as one record.
Cfg ==
    [baud |-> baudrate_, bytesize |-> bytesize_, parity |-> parity_,
     stopbits |-> stopbits_, flow |-> flowcontrol_]

\* The outcome of ReconfigurePort on descriptor fd with the configuration
\* fields c, the process holding the descriptors `open`, when the system call
\* named `fail` (if it is reached) fails and the byte time computed (if it is
\* reached) is bt: res, the system calls issued, and the fields written.
RcOut(res, os, flags, bt, applied) ==
    [res |-> res, os |-> os, xonxoff |-> flags[1], rtscts |-> flags[2],
     byte_time |-> bt, applied |-> applied]

ReconfigurePort(fd, open, fail, c, bt) ==
    LET old == <<xonxoff_, rtscts_>>
        ok(sc) == fd \in open /\ fail # sc
        custom == c.baud \notin EnumeratedBauds
        Throw(res, os) == RcOut(res, os, old, byte_time_ns_, <<>>)
        \* the calls issued up to the end of the baud-rate switch
        baudos == <<"tcgetattr">> \o (IF custom THEN CustomCalls ELSE <<>>)
        flags == FlowFlags(c.flow, xonxoff_, rtscts_)
    IN  IF fd = NoFd THEN Throw("io_error", <<>>)
        ELSE IF ~ok("tcgetattr") THEN Throw("io_error", <<"tcgetattr">>)
        ELSE IF custom /\ platform = "posix"
            THEN Throw("invalid_argument", <<"tcgetattr">>)
        ELSE IF custom /\ ~ok(CustomCalls[1])
            THEN Throw("io_error", <<"tcgetattr", CustomCalls[1]>>)
        ELSE IF custom /\ platform = "linux" /\ ~ok(CustomCalls[2])
            THEN Throw("io_error", baudos)
        ELSE IF ~ValidByteSize(c.bytesize)
            THEN Throw("invalid_argument", baudos)
        ELSE IF ~ValidStopBits(c.stopbits)
            THEN Throw("invalid_argument", baudos)
        ELSE IF ~ValidParity(c.parity) THEN Throw("invalid_argument", baudos)
        ELSE RcOut("ok", Append(baudos, "tcsetattr"), flags, bt,
                   <<Options(c, flags[1], flags[2])>>)

\* The system calls of ReconfigurePort that can fail.
RcFailures ==
    {"none", "tcgetattr", "ioctl_IOSSIOSPEED", "ioctl_TIOCGSERIAL",
     "ioctl_TIOCSSERIAL"}

\* ------------------------------------------------------------ call frames
IsIdle(t) == call[t].pc = "idle"

\* Calls made in all: the two threads of the loopback take more than the
\* single caller.
CallBudget == IF peer = "loop" THEN MaxLoopCalls ELSE MaxCalls

\* Thread t starts a call.
Begin(t) ==
    /\ IsIdle(t)
    /\ ncalls < CallBudget
    /\ ncalls' = ncalls + 1

\* Thread t stays inside call op, at pc, with the locals loc.
Stay(t, op, loc) ==
    /\ call' = [call EXCEPT ![t] = loc]
    /\ last' = [last EXCEPT ![t] = Call(op, "running", 0, <<>>, FALSE, <<>>)]

\* Thread t's call returns (or throws): its record replaces last[t].
Finish(t, op, res, val, os, reconf, applied) ==
    /\ call' = [call EXCEPT ![t] = Idle]
    /\ last' = [last EXCEPT ![t] = Call(op, res, val, os, reconf, applied)]

WriteDerived(rc) ==
    /\ xonxoff_' = rc.xonxoff
    /\ rtscts_' = rc.rtscts
    /\ byte_time_ns_' = rc.byte_time

\* ---------------------------------------------------------------- Open
\* errno values of a failed ::open.
OpenErrnos == {"EINTR", "ENFILE", "EMFILE", "EACCES"}

\* ::open returns the lowest free descriptor.
LowestFree == CHOOSE f \in Fds \ os_fds : \A g \in Fds \ os_fds : f <= g

\* The precondition checks without the test of is_open_.
OpenRefusalNoOpenTest == IF port_ = "" THEN "invalid_argument" ELSE "none"

\* The two precondition checks at the head of Open, in their order: the
\* exception thrown, or "none".
OpenRefusal ==
    IF port_ = "" THEN "invalid_argument"
    ELSE IF is_open_ THEN "already_open"
    ELSE "none"

\* is_open_ set before ReconfigurePort has returned.
OpenedBefore(res) == TRUE

\* `ReconfigurePort(); is_open_ = true;`: the assignment is reached only when
\* ReconfigurePort did not throw.
OpenedAfter(res) == IF res = "ok" THEN TRUE ELSE is_open_

\* No errno makes Open call itself again.
TransientNever(r) == FALSE

\* `case EINTR: Open(); return;`: the errno after which Open calls itself.
Transient(r) == r = "EINTR"

\* Every errno gives the generic failure.
OpenFailureGeneric(r) == "io_error"

\* The exception for the other errno values: "Too many file handles open."
\* for ENFILE and EMFILE, IOException(errno) by default.
OpenFailure(r) ==
    IF r \in {"ENFILE", "EMFILE"} THEN "too_many_handles" ELSE "io_error"

\* One activation of Open: the precondition checks, one ::open and, when it
\* succeeds, ReconfigurePort.  On EINTR the function calls itself: the thread
\* stays in the call ("open_retry") and the next activation starts over.
\* A failed ::open is entered in the system calls by its errno.
OpenAttempt(t) ==
    LET prev == call[t].os
        os == Append(prev, "open")
    IN  IF OpenRefusal # "none"
        THEN /\ Finish(t, "Open", OpenRefusal, 0, prev, FALSE, <<>>)
             /\ UNCHANGED <<fd_, is_open_, os_fds, derivedvars>>
        ELSE \E r \in OpenErrnos \cup {"ok"} :
             IF r = "ok"
             THEN /\ Fds \ os_fds # {}
                  /\ \E fail \in RcFailures, bt \in ByteTimes(Cfg) :
                       LET fd == LowestFree
                           rc == ReconfigurePort(fd, os_fds \cup {fd}, fail,
                                                 Cfg, bt)
                       IN  /\ fd_' = fd
                           /\ os_fds' = os_fds \cup {fd}
                           /\ WriteDerived(rc)
                           /\ is_open_' = OpenedAfter(rc.res)
                           /\ Finish(t, "Open", rc.res, 0, os \o rc.os, TRUE,
                                     rc.applied)
             ELSE IF Transient(r)
             THEN /\ r = "EINTR" => Len(prev) < MaxIntr
                  /\ fd_' = NoFd
                  /\ Stay(t, "Open",
                          [Idle EXCEPT !.pc = "open_retry",
                                       !.os = Append(prev, r)])
                  /\ UNCHANGED <<is_open_, os_fds, derivedvars>>
             ELSE /\ fd_' = NoFd
                  /\ Finish(t, "Open", OpenFailure(r), 0, Append(prev, r),
                            FALSE, <<>>)
                  /\ UNCHANGED <<is_open_, os_fds, derivedvars>>

OpenFrame ==
    UNCHANGED <<platform, port_, cfgvars, timeout_, lockvars, histvars, devvars>>

Open(t) == Begin(t) /\ OpenAttempt(t) /\ OpenFrame

OpenRetry(t) ==
    /\ call[t].pc = "open_retry"
    /\ OpenAttempt(t)
    /\ OpenFrame
    /\ UNCHANGED ncalls

\* ---------------------------------------------------------------- Close
\* A failed ::close may or may not have released the descriptor.  The device
\* drops its unread input when its last descriptor is closed.
Close(t) ==
    /\ Begin(t)
    /\ IF is_open_
       THEN IF fd_ # NoFd
            THEN \E ret \in {0, -1}, released \in BOOLEAN :
                 IF ret = 0
                 THEN /\ fd_ \in os_fds
                      /\ released
                      /\ os_fds' = os_fds \ {fd_}
                      /\ fd_' = NoFd
                      /\ is_open_' = FALSE
                      /\ Finish(t, "Close", "ok", 0, <<"close">>, FALSE, <<>>)
                 ELSE /\ os_fds' = IF released THEN os_fds \ {fd_} ELSE os_fds
                      /\ Finish(t, "Close", "io_error", 0, <<"close">>, FALSE,
                                <<>>)
                      /\ UNCHANGED <<fd_, is_open_>>
            ELSE /\ is_open_' = FALSE
                 /\ Finish(t, "Close", "ok", 0, <<>>, FALSE, <<>>)
                 /\ UNCHANGED <<fd_, os_fds>>
       ELSE /\ Finish(t, "Close", "ok", 0, <<>>, FALSE, <<>>)
            /\ UNCHANGED <<fd_, is_open_, os_fds>>
    /\ rxbuf' = IF os_fds' = {} THEN <<>> ELSE rxbuf
    /\ UNCHANGED <<platform, port_, cfgvars, derivedvars, timeout_, lockvars,
                   histvars, peer, sent, lines>>

\* -------------------------------------------------------------- setters
SetPort(t, port) ==
    /\ Begin(t)
    /\ port_' = port
    /\ Finish(t, "SetPort", "ok", 0, <<>>, FALSE, <<>>)
    /\ UNCHANGED <<platform, fd_, is_open_, cfgvars, derivedvars, timeout_,
                   lockvars, os_fds, histvars, devvars>>

SetTimeout(t, timeout) ==
    /\ Begin(t)
    /\ timeout_' = timeout
    /\ Finish(t, "SetTimeout", "ok", 0, <<>>, FALSE, <<>>)
    /\ UNCHANGED <<platform, port_, fd_, is_open_, cfgvars, derivedvars,
                   lockvars, os_fds, histvars, devvars>>

\* A setter that calls ReconfigurePort whether or not the port is open.
SetterAlways(t, op, v, c) ==
    /\ Begin(t)
    /\ baudrate_' = c.baud
    /\ bytesize_' = c.bytesize
    /\ parity_' = c.parity
    /\ stopbits_' = c.stopbits
    /\ flowcontrol_' = c.flow
    /\ \E fail \in RcFailures, bt \in ByteTimes(c) :
         LET rc == ReconfigurePort(fd_, os_fds, fail, c, bt)
         IN  /\ WriteDerived(rc)
             /\ Finish(t, op, rc.res, v, rc.os, TRUE, rc.applied)
    /\ UNCHANGED <<platform, port_, fd_, is_open_, timeout_, lockvars, os_fds,
                   histvars, devvars>>

\* A setter that puts the old value back when ReconfigurePort throws.
SetterRollback(t, op, v, c) ==
    /\ Begin(t)
    /\ IF is_open_
       THEN \E fail \in RcFailures, bt \in ByteTimes(c) :
            LET rc == ReconfigurePort(fd_, os_fds, fail, c, bt)
                kept == IF rc.res = "ok" THEN c ELSE Cfg
            IN  /\ baudrate_' = kept.baud
                /\ bytesize_' = kept.bytesize
                /\ parity_' = kept.parity
                /\ stopbits_' = kept.stopbits
                /\ flowcontrol_' = kept.flow
                /\ WriteDerived(rc)
                /\ Finish(t, op, rc.res, v, rc.os, TRUE, rc.applied)
       ELSE /\ baudrate_' = c.baud
            /\ bytesize_' = c.bytesize
            /\ parity_' = c.parity
            /\ stopbits_' = c.stopbits
            /\ flowcontrol_' = c.flow
            /\ Finish(t, op, "ok", v, <<>>, FALSE, <<>>)
            /\ UNCHANGED derivedvars
    /\ UNCHANGED <<platform, port_, fd_, is_open_, timeout_, lockvars, os_fds,
                   histvars, devvars>>

\* The common shape of the five configuration setters: store the value v,
\* then `if (is_open_) ReconfigurePort();`.  c is the configuration after the
\* store.
Setter(t, op, v, c) ==
    /\ Begin(t)
    /\ baudrate_' = c.baud
    /\ bytesize_' = c.bytesize
    /\ parity_' = c.parity
    /\ stopbits_' = c.stopbits
    /\ flowcontrol_' = c.flow
    /\ IF is_open_
       THEN \E fail \in RcFailures, bt \in ByteTimes(c) :
            LET rc == ReconfigurePort(fd_, os_fds, fail, c, bt)
            IN  /\ WriteDerived(rc)
                /\ Finish(t, op, rc.res, v, rc.os, TRUE, rc.applied)
       ELSE /\ Finish(t, op, "ok", v, <<>>, FALSE, <<>>)
            /\ UNCHANGED derivedvars
    /\ UNCHANGED <<platform, port_, fd_, is_open_, timeout_, lockvars, os_fds,
                   histvars, devvars>>

SetBaudrate(t, baudrate) ==
    Setter(t, "SetBaudrate", baudrate, [Cfg EXCEPT !.baud = baudrate])

SetBytesize(t, bytesize) ==
    Setter(t, "SetBytesize", bytesize, [Cfg EXCEPT !.bytesize = bytesize])

SetParity(t, parity) ==
    Setter(t, "SetParity", parity, [Cfg EXCEPT !.parity = parity])

SetStopbits(t, stopbits) ==
    Setter(t, "SetStopbits", stopbits, [Cfg EXCEPT !.stopbits = stopbits])

SetFlowcontrol(t, flowcontrol) ==
    Setter(t, "SetFlowcontrol", flowcontrol, [Cfg EXCEPT !.flow = flowcontrol])

\* ------------------------------------------------- control and status calls
CtlFrame ==
    UNCHANGED <<platform, port_, fd_, is_open_, cfgvars, derivedvars,
                timeout_, lockvars, os_fds, histvars, devvars>>

\* Results a system call on fd_ can give: failure always, success only on a
\* descriptor the process holds.
SysResults == IF fd_ \in os_fds THEN {0, -1} ELSE {-1}

\* Flush, FlushInput, FlushOutput, SendBreak: the is_open_ guard, then one
\* system call whose result is ignored.  tcflush(TCIFLUSH) drops the unread
\* input of the device.
Unchecked(t, op, sc) ==
    /\ Begin(t)
    /\ IF ~is_open_
       THEN /\ Finish(t, op, "not_open", 0, <<>>, FALSE, <<>>)
            /\ UNCHANGED rxbuf
       ELSE /\ Finish(t, op, "ok", 0, <<sc>>, FALSE, <<>>)
            /\ rxbuf' = IF sc = "tcflush_TCIFLUSH" /\ fd_ \in os_fds
                        THEN <<>> ELSE rxbuf
    /\ UNCHANGED <<platform, port_, fd_, is_open_, cfgvars, derivedvars,
                   timeout_, lockvars, os_fds, histvars, peer, sent,
                   lines>>

Flush(t) == Unchecked(t, "Flush", "tcdrain")
FlushInput(t) == Unchecked(t, "FlushInput", "tcflush_TCIFLUSH")
FlushOutput(t) == Unchecked(t, "FlushOutput", "tcflush_TCOFLUSH")
SendBreak(t) == Unchecked(t, "SendBreak", "tcsendbreak")

\* A line operation that marks the port closed when its ioctl fails.
LineSetClosing(t, op, sc) ==
    /\ Begin(t)
    /\ IF ~is_open_
       THEN /\ Finish(t, op, "not_open", 0, <<>>, FALSE, <<>>)
            /\ UNCHANGED is_open_
       ELSE \E r \in SysResults :
            /\ Finish(t, op, IF r = -1 THEN "serial_error" ELSE "ok", 0,
                      <<sc>>, FALSE, <<>>)
            /\ is_open_' = (r # -1)
    /\ UNCHANGED <<platform, port_, fd_, cfgvars, derivedvars, timeout_,
                   lockvars, os_fds, histvars, devvars>>

\* SetBreak, SetRTS, SetDTR: the is_open_ guard, then one ioctl; -1 throws
\* SerialException.
LineSet(t, op, sc) ==
    /\ Begin(t)
    /\ IF ~is_open_
       THEN Finish(t, op, "not_open", 0, <<>>, FALSE, <<>>)
       ELSE \E r \in SysResults :
            Finish(t, op, IF r = -1 THEN "serial_error" ELSE "ok", 0, <<sc>>,
                   FALSE, <<>>)
    /\ CtlFrame

SetBreak(t, level) ==
    LineSet(t, "SetBreak", IF level THEN "ioctl_TIOCSBRK" ELSE "ioctl_TIOCCBRK")
SetRTS(t, level) ==
    LineSet(t, "SetRTS", IF level THEN "ioctl_TIOCMBIS" ELSE "ioctl_TIOCMBIC")
SetDTR(t, level) ==
    LineSet(t, "SetDTR", IF level THEN "ioctl_TIOCMBIS" ELSE "ioctl_TIOCMBIC")

\* GetCTS, GetDSR, GetRI, GetCD: the is_open_ guard, then ioctl(TIOCMGET) and
\* the test of one bit of the status (1 when set).
\* The status lines WaitForChange looks at.
Monitored == {"CTS", "DSR", "RI", "CD"}

\* The line whose bit of the TIOCMGET status each getter tests.
LineOf(op) ==
    IF op = "GetCTS" THEN "CTS"
    ELSE IF op = "GetDSR" THEN "DSR"
    ELSE IF op = "GetRI" THEN "RI"
    ELSE "CD"

LineGet(t, op) ==
    /\ Begin(t)
    /\ IF ~is_open_
       THEN Finish(t, op, "not_open", 0, <<>>, FALSE, <<>>)
       ELSE \E r \in SysResults :
            IF r = -1
            THEN Finish(t, op, "serial_error", 0, <<"ioctl_TIOCMGET">>,
                        FALSE, <<>>)
            ELSE Finish(t, op, "ok", IF LineOf(op) \in lines THEN 1 ELSE 0,
                        <<"ioctl_TIOCMGET">>, FALSE, <<>>)
    /\ CtlFrame

GetCTS(t) == LineGet(t, "GetCTS")
GetDSR(t) == LineGet(t, "GetDSR")
GetRI(t) == LineGet(t, "GetRI")
GetCD(t) == LineGet(t, "GetCD")

\* WaitForChange.  With TIOCMIWAIT (Linux) there is no is_open_ test: the
\* ioctl is issued on fd_ and the thread blocks in it ("miwait").  Without it
\* the condition of the loop `while (is_open_ == true)` is evaluated: false
\* leaves the loop and returns false, true goes on to the TIOCMGET query
\* ("query").  changed records whether a status line changed since the call
\* began.
WaitForChangeStep(t, os) ==
    IF platform = "linux"
    THEN IF fd_ \notin os_fds
         THEN Finish(t, "WaitForChange", "serial_error", 0,
                     Append(os, "ioctl_TIOCMIWAIT"), FALSE, <<>>)
         ELSE Stay(t, "WaitForChange",
                   [Idle EXCEPT !.pc = "miwait",
                                !.os = Append(os, "ioctl_TIOCMIWAIT")])
    ELSE IF ~is_open_
         THEN Finish(t, "WaitForChange", "ok", 0, os, FALSE, <<>>)
         ELSE Stay(t, "WaitForChange",
                   [Idle EXCEPT !.pc = "query", !.os = os,
                                !.changed = call[t].changed])

WaitForChange(t) == Begin(t) /\ WaitForChangeStep(t, <<>>) /\ CtlFrame

\* ioctl(fd_, TIOCMGET, &status) inside the loop: -1 throws SerialException,
\* a status with one of CTS, DSR, RI, CD set returns true, any other goes to
\* usleep(1000) ("poll").
WaitForChangeQuery(t) ==
    /\ call[t].pc = "query"
    /\ UNCHANGED ncalls
    /\ \E r \in SysResults :
         IF r = -1
         THEN Finish(t, "WaitForChange", "serial_error", 0,
                     <<"ioctl_TIOCMGET">>, FALSE, <<>>)
         ELSE IF lines \cap Monitored # {}
         THEN Finish(t, "WaitForChange", "ok", 1, <<"ioctl_TIOCMGET">>,
                     FALSE, <<>>)
         ELSE Stay(t, "WaitForChange",
                   [call[t] EXCEPT !.pc = "poll",
                                   !.os = <<"ioctl_TIOCMGET">>])
    /\ CtlFrame

\* After usleep(1000) the loop condition is evaluated again.
WaitForChangePoll(t) ==
    /\ call[t].pc = "poll"
    /\ UNCHANGED ncalls
    /\ WaitForChangeStep(t, call[t].os)
    /\ CtlFrame

\* The blocked ioctl(TIOCMIWAIT) returns: 0 after a line changed, -1 on error.
WaitForChangeWake(t) ==
    /\ call[t].pc = "miwait"
    /\ UNCHANGED ncalls
    /\ \E r \in {0, -1} :
         Finish(t, "WaitForChange", IF r = -1 THEN "serial_error" ELSE "ok",
                IF r = -1 THEN 0 ELSE 1, call[t].os, FALSE, <<>>)
    /\ CtlFrame

\* ReconfigurePort called on its own.
ReconfigurePortCall(t) ==
    /\ Begin(t)
    /\ \E fail \in RcFailures, bt \in ByteTimes(Cfg) :
         LET rc == ReconfigurePort(fd_, os_fds, fail, Cfg, bt)
         IN  /\ WriteDerived(rc)
             /\ Finish(t, "ReconfigurePort", rc.res, 0, rc.os, TRUE, rc.applied)
    /\ UNCHANGED <<platform, port_, fd_, is_open_, cfgvars, timeout_, lockvars,
                   os_fds, histvars, devvars>>

\* ------------------------------------------------------------- Available
\* An Available that queries the count whether or not the port is open.
AvailableResultsUnguarded ==
    {<<"io_error", 0, <<"ioctl_TIOCINQ">>>>} \cup
    (IF fd_ \in os_fds
     THEN {<<"ok", Len(rxbuf), <<"ioctl_TIOCINQ">>>>} ELSE {})

\* The body of Available: <<res, val, os>> for each result of the ioctl.
AvailableResults ==
    IF ~is_open_ THEN {<<"ok", 0, <<>>>>}
    ELSE {<<"io_error", 0, <<"ioctl_TIOCINQ">>>>} \cup
         (IF fd_ \in os_fds
          THEN {<<"ok", Len(rxbuf), <<"ioctl_TIOCINQ">>>>} ELSE {})

Available(t) ==
    /\ Begin(t)
    /\ \E a \in AvailableResults :
         Finish(t, "Available", a[1], a[2], a[3], FALSE, <<>>)
    /\ CtlFrame

\* ------------------------------------------------------------------ time
\* MilliTimer(total).Remaining() once `elapsed` ms have passed since the
\* timer was made.
Remaining(total, elapsed) == total - elapsed

\* A deadline test that never breaks the loop.
TimedOutNever(rem) == FALSE

\* `if (timeout_remaining_ms <= 0) break;` at the head of both loops.
TimedOut(rem) == rem <= 0

\* Width of uint32_t in the model: the 32 bits scaled down, so that remaining
\* times of 2^UintBits ms and more occur within the clock of a call.
UintBits == 2
Wrap == 2 ^ UintBits

\* static_cast<uint32_t> of a remaining time (which is positive where the
\* cast is made): the value modulo 2^width.
U32(ms) == ms % Wrap

\* Timeout::max(), the sentinel that disables the inter-byte timeout: the
\* largest value of uint32_t.
TimeoutMax == Wrap - 1

\* A wait of the whole inter-byte timeout, whatever remains of the deadline.
WaitBoundWhole(rem, ibt) == ibt

\* `std::min(static_cast<uint32_t>(timeout_remaining_ms),
\* timeout_.inter_byte_timeout)`: the timeout Read hands to WaitReadable.
WaitBound(rem, ibt) == Min(U32(rem), ibt)

\* The timeouts Write's pselect can get for the remaining time rem:
\* MilliTimer::TimeSpecFromMs is handed the int64_t and converts it to its
\* parameter, whose width timer.h decides: the whole value or the narrowed
\* one.
WriteWaits(rem) == {rem, U32(rem)}

\* Cap of the clock of a call; above every total timeout of the model.
MaxTime == 3

\* ------------------------------------------------------------------ Read
\* Read and Write assign no member of the object.
IoFrame ==
    UNCHANGED <<platform, port_, fd_, is_open_, cfgvars, derivedvars,
                timeout_, lockvars, os_fds, peer, sent, lines>>

\* Results of ::read(fd_, ., want): -1, 0, or the number of bytes handed out,
\* at most want and at most what the device holds.
ReadResults(want) ==
    IF fd_ \notin os_fds THEN {-1}
    ELSE {-1, 0} \cup 1..Min(want, Len(rxbuf))

Take(k) == SubSeq(rxbuf, 1, k)
Drop(k) == SubSeq(rxbuf, k + 1, Len(rxbuf))

\* A Read ends: by return (res "ok", n bytes of buf) or by exception.
ReadEnd(t, res, loc) ==
    /\ call' = [call EXCEPT ![t] = Idle]
    /\ last' = [last EXCEPT ![t] =
                  [Call("Read", res, loc.n, loc.os, FALSE, <<>>)
                     EXCEPT !.size = loc.size, !.id = loc.id]]
    /\ returned' = IF res = "ok" THEN returned \o SubSeq(loc.buf, 1, loc.n)
                   ELSE returned
    /\ faulted' = (faulted \/ (res # "ok" /\ Len(loc.buf) > 0))

\* Read without the test of is_open_.
ReadCallUnguarded(t, size) ==
    /\ Begin(t)
    /\ Stay(t, "Read",
            [Idle EXCEPT !.pc = "prefill", !.size = size,
                         !.id = ncalls + 1,
                         !.total = timeout_.read_timeout_constant +
                                   timeout_.read_timeout_multiplier * size])
    /\ IoFrame
    /\ UNCHANGED <<rxbuf, histvars>>

\* A Read that goes to the head of its loop without the pre-fill.
ReadEntryAtLoop == "loop"

\* Where Read goes once its timer is made: to the pre-fill, which stands
\* before the loop.
ReadEntry == "prefill"

ReadCall(t, size) ==
    /\ Begin(t)
    /\ IF ~is_open_
       THEN Finish(t, "Read", "not_open", 0, <<>>, FALSE, <<>>)
       ELSE Stay(t, "Read",
                 [Idle EXCEPT !.pc = ReadEntry, !.size = size,
                              !.id = ncalls + 1,
                              !.total = timeout_.read_timeout_constant +
                                        timeout_.read_timeout_multiplier * size])
    /\ IoFrame
    /\ UNCHANGED <<rxbuf, histvars>>

\* A pre-fill whose bytes are not counted.
PrefilledDropped(k) == 0

\* `if (bytes_read_now > 0) bytes_read = bytes_read_now;`: the count after
\* the pre-fill returned k.
Prefilled(k) == IF k > 0 THEN k ELSE 0

\* "Pre-fill buffer with available bytes": a result below 1 is ignored.
ReadPrefill(t) ==
    /\ call[t].pc = "prefill"
    /\ UNCHANGED ncalls
    /\ \E k \in ReadResults(call[t].size) :
         LET got == IF k > 0 THEN k ELSE 0
         IN  /\ call' = [call EXCEPT ![t] =
                           [@ EXCEPT !.pc = "loop", !.n = Prefilled(k),
                                     !.buf = Take(got),
                                     !.os = Append(@, "read")]]
             /\ rxbuf' = Drop(got)
             /\ consumed' = consumed \o Take(got)
    /\ IoFrame
    /\ UNCHANGED <<last, returned, wire, faulted>>

\* The head of `while (bytes_read < size)`: the loop condition, the deadline
\* test and the start of WaitReadable(min(remaining, inter_byte_timeout)).
ReadLoop(t) ==
    /\ call[t].pc = "loop"
    /\ UNCHANGED ncalls
    /\ LET c == call[t]
           rem == Remaining(c.total, c.elapsed)
       IN  IF ~(c.n < c.size) \/ TimedOut(rem)
           THEN ReadEnd(t, "ok", c)
           ELSE /\ call' = [call EXCEPT ![t] =
                              [c EXCEPT !.pc = "wait",
                                        !.until = c.elapsed +
                                            WaitBound(rem,
                                                timeout_.inter_byte_timeout),
                                        !.os = Append(@, "pselect")]]
                /\ UNCHANGED <<last, returned, faulted>>
    /\ IoFrame
    /\ UNCHANGED <<rxbuf, consumed, wire>>

\* The results pselect(fd_ + 1, ...) can give on the handle: any on a
\* descriptor that is open; on the sentinel -1, which another thread's Close
\* left in fd_, no descriptor is watched and the call sleeps, so it times out
\* or is interrupted; a failure is possible in every case (EBADF on a closed
\* descriptor).
Selects(r) ==
    \/ r = "error"
    \/ fd_ \in os_fds
    \/ fd_ = NoFd /\ r \in {"timeout", "EINTR"}

\* WaitReadable's pselect returns r: "EINTR" and "timeout" give false,
\* "error" throws IOException, "ready" gives true.  A device that hung up is
\* ready with nothing to read.
ReadWaitOn(t, r) ==
    /\ call[t].pc = "wait"
    /\ UNCHANGED ncalls
    /\ LET c == call[t]
       IN  IF r = "error"
           THEN ReadEnd(t, "io_error", c)
           ELSE /\ Selects(r)
                /\ r = "timeout" => c.elapsed >= c.until
                /\ r = "EINTR" => c.intr < MaxIntr
                /\ call' = [call EXCEPT ![t] =
                              [c EXCEPT !.pc = IF r = "ready" THEN "ready"
                                               ELSE "loop",
                                        !.intr = IF r = "EINTR" THEN @ + 1
                                                 ELSE @]]
                /\ UNCHANGED <<last, returned, faulted>>
    /\ IoFrame
    /\ UNCHANGED <<rxbuf, consumed, wire>>

ReadWait(t) == \E r \in {"EINTR", "error", "timeout", "ready"} : ReadWaitOn(t, r)

\* WaitByteTimes(count): the nanoseconds the thread sleeps.  The product
\* byte_time_ns_ * count goes to tv_nsec with tv_sec 0; pselect rejects a
\* tv_nsec of 10^9 or more (EINVAL) and returns at once, and its result is
\* not looked at.
WaitByteTimes(count) ==
    IF byte_time_ns_ <= 999999999 \div count THEN byte_time_ns_ * count ELSE 0

\* After readiness: for size > 1 with the inter-byte timeout disabled,
\* Available() and, if bytes are still missing, WaitByteTimes(missing);
\* slept is the time slept.
ReadReady(t) ==
    /\ call[t].pc = "ready"
    /\ UNCHANGED ncalls
    /\ LET c == call[t]
       IN  IF c.size > 1 /\ timeout_.inter_byte_timeout = TimeoutMax
           THEN \E a \in AvailableResults :
                IF a[1] # "ok"
                THEN ReadEnd(t, a[1], [c EXCEPT !.os = c.os \o a[3]])
                ELSE /\ call' = [call EXCEPT ![t] =
                                   [c EXCEPT !.pc = "xfer",
                                             !.os = c.os \o a[3],
                                             !.slept =
                                                 IF a[2] + c.n < c.size
                                                 THEN WaitByteTimes(
                                                        c.size - (a[2] + c.n))
                                                 ELSE 0]]
                     /\ UNCHANGED <<last, returned, faulted>>
           ELSE /\ call' = [call EXCEPT ![t] = [c EXCEPT !.pc = "xfer"]]
                /\ UNCHANGED <<last, returned, faulted>>
    /\ IoFrame
    /\ UNCHANGED <<rxbuf, consumed, wire>>

\* A test that takes no result of a transfer for a disconnection.
DisconnectedNever(k) == FALSE

\* `if (bytes_read_now < 1)` and `if (bytes_written_now < 1)`: after the
\* readiness the transfer moved nothing.
Disconnected(k) == k < 1

\* Every transfer asks for the whole request.
MissingWhole(size, n) == size

\* The length asked of ::read and of ::write inside the loops: what is
\* still missing of the request.
Missing(size, n) == size - n

\* Every transfer lands in front of the bytes already there.
StoreInFront(buf, n, bytes) == bytes \o SubSeq(buf, 1, n)

\* buf + bytes_read: the bytes of one transfer land after those already there.
Store(buf, n, bytes) == SubSeq(buf, 1, n) \o bytes

\* ::read(fd_, buf + bytes_read, size - bytes_read) and the tests after it.
ReadXfer(t) ==
    /\ call[t].pc = "xfer"
    /\ UNCHANGED ncalls
    /\ LET c == call[t]
       IN  \E k \in ReadResults(Missing(c.size, c.n)) :
           LET got == IF k > 0 THEN k ELSE 0
               d == [c EXCEPT !.n = c.n + got,
                              !.buf = Store(c.buf, c.n, Take(got)),
                              !.os = Append(@, "read"), !.slept = 0]
           IN  /\ rxbuf' = Drop(got)
               /\ consumed' = consumed \o Take(got)
               /\ IF Disconnected(k) THEN ReadEnd(t, "serial_error", d)
                  ELSE IF d.n = d.size THEN ReadEnd(t, "ok", d)
                  ELSE IF d.n < d.size
                  THEN /\ call' = [call EXCEPT ![t] = [d EXCEPT !.pc = "loop"]]
                       /\ UNCHANGED <<last, returned, faulted>>
                  ELSE ReadEnd(t, "over_read", d)
    /\ IoFrame
    /\ UNCHANGED wire

\* ----------------------------------------------------------------- Write
\* Results of ::write(fd_, ., want): -1, 0, or the number of bytes accepted.
WriteResults(want) ==
    IF fd_ \notin os_fds THEN {-1}
    ELSE IF peer = "quiet" THEN {-1, 0}
    ELSE {-1, 0} \cup 1..want

\* A Write ends: by return (res "ok", n bytes accepted) or by exception.
WriteEnd(t, res, loc) ==
    /\ call' = [call EXCEPT ![t] = Idle]
    /\ last' = [last EXCEPT ![t] =
                  [Call("Write", res, loc.n, loc.os, FALSE, <<>>)
                     EXCEPT !.size = loc.size, !.id = loc.id]]

\* A Write that starts with a transfer, as Read does.
WriteEntryAtXfer == "wxfer"

\* Where Write goes once its timer is made: to the head of its loop.
WriteEntry == "wloop"

WriteCall(t, length) ==
    /\ Begin(t)
    /\ IF ~is_open_
       THEN Finish(t, "Write", "not_open", 0, <<>>, FALSE, <<>>)
       ELSE Stay(t, "Write",
                 [Idle EXCEPT !.pc = WriteEntry, !.size = length,
                              !.id = ncalls + 1,
                              !.total = timeout_.write_timeout_constant +
                                        timeout_.write_timeout_multiplier *
                                            length])
    /\ IoFrame
    /\ UNCHANGED <<rxbuf, histvars>>

\* The head of `while (bytes_written < length)`: the loop condition, the
\* deadline test and the start of pselect(remaining).
WriteLoop(t) ==
    /\ call[t].pc = "wloop"
    /\ UNCHANGED ncalls
    /\ LET c == call[t]
           rem == Remaining(c.total, c.elapsed)
       IN  IF ~(c.n < c.size) \/ TimedOut(rem)
           THEN WriteEnd(t, "ok", c)
           ELSE /\ \E w \in WriteWaits(rem) :
                     call' = [call EXCEPT ![t] =
                                [c EXCEPT !.pc = "wwait",
                                          !.until = c.elapsed + w,
                                          !.os = Append(@, "pselect")]]
                /\ UNCHANGED last
    /\ IoFrame
    /\ UNCHANGED <<rxbuf, histvars>>

\* pselect returns r: "EINTR" continues the loop, "error" throws IOException,
\* "timeout" leaves the loop, "ready" goes on to ::write.
WriteWaitOn(t, r) ==
    /\ call[t].pc = "wwait"
    /\ UNCHANGED ncalls
    /\ LET c == call[t]
       IN  IF r = "error"
           THEN WriteEnd(t, "io_error", c)
           ELSE /\ Selects(r)
                /\ IF r = "timeout"
                   THEN /\ c.elapsed >= c.until
                        /\ WriteEnd(t, "ok", c)
                   ELSE /\ r = "EINTR" => c.intr < MaxIntr
                        /\ call' = [call EXCEPT ![t] =
                                      [c EXCEPT !.pc = IF r = "ready"
                                                       THEN "wxfer"
                                                       ELSE "wloop",
                                                !.intr = IF r = "EINTR"
                                                         THEN @ + 1 ELSE @]]
                        /\ UNCHANGED last
    /\ IoFrame
    /\ UNCHANGED <<rxbuf, histvars>>

\* A wait in which an interrupt ends the Write as a timeout does.
WriteWaitIntrEnds(t) ==
    \/ \E r \in {"error", "timeout", "ready"} : WriteWaitOn(t, r)
    \/ /\ call[t].pc = "wwait"
       /\ UNCHANGED ncalls
       /\ fd_ \in os_fds
       /\ call[t].intr < MaxIntr
       /\ WriteEnd(t, "ok", call[t])
       /\ IoFrame
       /\ UNCHANGED <<rxbuf, histvars>>

WriteWait(t) == \E r \in {"EINTR", "error", "timeout", "ready"} : WriteWaitOn(t, r)

\* ::write(fd_, data + bytes_written, length - bytes_written) and the tests
\* after it.  The i-th byte of the data of call number k is <<k, i>>.  A
\* loopback device queues the bytes it accepts as its own input.
WriteXfer(t) ==
    /\ call[t].pc = "wxfer"
    /\ UNCHANGED ncalls
    /\ LET c == call[t]
       IN  \E k \in WriteResults(Missing(c.size, c.n)) :
           LET put == IF k > 0 THEN k ELSE 0
               out == [i \in 1..put |-> <<c.id, c.n + i>>]
               d == [c EXCEPT !.n = c.n + put, !.os = Append(@, "write")]
           IN  /\ wire' = wire \o out
               /\ rxbuf' = IF peer = "loop" THEN rxbuf \o out ELSE rxbuf
               /\ IF Disconnected(k) THEN WriteEnd(t, "serial_error", d)
                  ELSE IF d.n = d.size THEN WriteEnd(t, "ok", d)
                  ELSE IF d.n < d.size
                  THEN /\ call' = [call EXCEPT ![t] = [d EXCEPT !.pc = "wloop"]]
                       /\ UNCHANGED last
                  ELSE WriteEnd(t, "over_write", d)
    /\ IoFrame
    /\ UNCHANGED <<consumed, returned, faulted>>

\* ----------------------------------------------------------- environment
\* Number of bytes the peer sends in all.
MaxStream == 2

\* The peer's k-th byte is k; the device queues it while a descriptor is open.
PeerSend ==
    /\ peer = "live"
    /\ sent < MaxStream
    /\ os_fds # {}
    /\ sent' = sent + 1
    /\ rxbuf' = Append(rxbuf, sent + 1)
    /\ UNCHANGED <<platform, port_, fd_, is_open_, cfgvars, derivedvars,
                   timeout_, lockvars, os_fds, peer, lines, call, last,
                   histvars, ncalls>>

InCall(t) == call[t].pc \in {"prefill", "loop", "wait", "ready", "xfer",
                             "wloop", "wwait", "wxfer"}

\* One millisecond passes for every Read and Write in progress.
Tick ==
    /\ \E t \in Threads : InCall(t) /\ call[t].elapsed < MaxTime
    /\ call' = [t \in Threads |->
                  IF InCall(t) /\ call[t].elapsed < MaxTime
                  THEN [call[t] EXCEPT !.elapsed = @ + 1]
                  ELSE call[t]]
    /\ UNCHANGED <<platform, port_, fd_, is_open_, cfgvars, derivedvars,
                   timeout_, lockvars, os_fds, devvars, last, histvars,
                   ncalls>>

\* ---------------------------------------------------------------- locks
\* pthread_mutex_lock on a default mutex: the caller blocks while another
\* thread (or, deadlocking, itself) holds it.
ReadLock(t) ==
    /\ Begin(t)
    /\ read_mutex = "free"
    /\ read_mutex' = t
    /\ Finish(t, "ReadLock", "ok", 0, <<>>, FALSE, <<>>)
    /\ UNCHANGED <<platform, port_, fd_, is_open_, cfgvars, derivedvars,
                   timeout_, write_mutex, os_fds, histvars, devvars>>

ReadUnlock(t) ==
    /\ Begin(t)
    /\ read_mutex = t
    /\ read_mutex' = "free"
    /\ Finish(t, "ReadUnlock", "ok", 0, <<>>, FALSE, <<>>)
    /\ UNCHANGED <<platform, port_, fd_, is_open_, cfgvars, derivedvars,
                   timeout_, write_mutex, os_fds, histvars, devvars>>

\* A WriteLock that locks the read mutex.
WriteLockOnReadMutex(t) ==
    /\ Begin(t)
    /\ read_mutex = "free"
    /\ read_mutex' = t
    /\ Finish(t, "WriteLock", "ok", 0, <<>>, FALSE, <<>>)
    /\ UNCHANGED <<platform, port_, fd_, is_open_, cfgvars, derivedvars,
                   timeout_, write_mutex, os_fds, histvars, devvars>>

WriteLock(t) ==
    /\ Begin(t)
    /\ write_mutex = "free"
    /\ write_mutex' = t
    /\ Finish(t, "WriteLock", "ok", 0, <<>>, FALSE, <<>>)
    /\ UNCHANGED <<platform, port_, fd_, is_open_, cfgvars, derivedvars,
                   timeout_, read_mutex, os_fds, histvars, devvars>>

\* A WriteUnlock that leaves the mutex locked.
WriteUnlockKeeps(t) ==
    /\ Begin(t)
    /\ write_mutex = t
    /\ write_mutex' = write_mutex
    /\ Finish(t, "WriteUnlock", "ok", 0, <<>>, FALSE, <<>>)
    /\ UNCHANGED <<platform, port_, fd_, is_open_, cfgvars, derivedvars,
                   timeout_, read_mutex, os_fds, histvars, devvars>>

WriteUnlock(t) ==
    /\ Begin(t)
    /\ write_mutex = t
    /\ write_mutex' = "free"
    /\ Finish(t, "WriteUnlock", "ok", 0, <<>>, FALSE, <<>>)
    /\ UNCHANGED <<platform, port_, fd_, is_open_, cfgvars, derivedvars,
                   timeout_, read_mutex, os_fds, histvars, devvars>>

\* ------------------------------------------------------------ construction
\* Timeout(): every field 0 until SetTimeout is called.
NoTimeout ==
    [inter_byte_timeout |-> 0, read_timeout_constant |-> 0,
     read_timeout_multiplier |-> 0, write_timeout_constant |-> 0,
     write_timeout_multiplier |-> 0]

\* The constructor stores its arguments and, when the port name is not empty,
\* calls Open; an object exists only if that Open returned.  byte_time_ns_ has
\* no initialiser: 0 stands for its indeterminate value, which is never read
\* before ReconfigurePort writes it.
Constructed(port, c) ==
    /\ port_ = port
    /\ baudrate_ = c.baud
    /\ bytesize_ = c.bytesize
    /\ parity_ = c.parity
    /\ stopbits_ = c.stopbits
    /\ flowcontrol_ = c.flow
    /\ timeout_ = NoTimeout
    /\ read_mutex = "free"
    /\ write_mutex = "free"
    /\ call = [t \in Threads |-> Idle]
    /\ sent = 0
    /\ rxbuf = <<>>
    /\ consumed = <<>>
    /\ returned = <<>>
    /\ wire = <<>>
    /\ faulted = FALSE
    /\ ncalls = 0
    /\ IF port = ""
       THEN /\ fd_ = NoFd
            /\ is_open_ = FALSE
            /\ os_fds = {}
            /\ xonxoff_ = FALSE
            /\ rtscts_ = FALSE
            /\ byte_time_ns_ = 0
            /\ last = [t \in Threads |-> NoCall]
       ELSE /\ ValidByteSize(c.bytesize)
            /\ ValidStopBits(c.stopbits)
            /\ ValidParity(c.parity)
            /\ c.baud \in EnumeratedBauds \/ platform # "posix"
            /\ fd_ = 3
            /\ is_open_ = TRUE
            /\ os_fds = {3}
            /\ xonxoff_ = FlowFlags(c.flow, FALSE, FALSE)[1]
            /\ rtscts_ = FlowFlags(c.flow, FALSE, FALSE)[2]
            /\ byte_time_ns_ \in ByteTimes(c)
            /\ last = [t \in Threads |-> NoCall]

Configs ==
    [baud : Bauds, bytesize : ByteSizes, parity : Parities,
     stopbits : StopBits, flow : FlowControls]

\* The configurations of the specification of all calls: the character size
\* varies, the other fields keep one value.
FewConfigs ==
    [baud : {9600}, bytesize : ByteSizes, parity : {parity_none},
     stopbits : {stopbits_one}, flow : {flowcontrol_none}]

\* ---------------------------------------------- specification of all calls
\* One caller makes every call of the interface, one call at a time.
Init ==
    /\ platform \in Platforms
    /\ peer = "quiet"
    /\ lines \in {{}, {"CTS"}}
    /\ \E port \in Ports, c \in FewConfigs : Constructed(port, c)

Lifecycle(t) ==
    \/ Open(t)
    \/ OpenRetry(t)
    \/ Close(t)
    \/ \E p \in Ports : SetPort(t, p)
    \/ \E c \in FewConfigs : SetBaudrate(t, c.baud)
    \/ \E c \in FewConfigs : SetBytesize(t, c.bytesize)
    \/ \E c \in FewConfigs : SetParity(t, c.parity)
    \/ \E c \in FewConfigs : SetStopbits(t, c.stopbits)
    \/ \E c \in FewConfigs : SetFlowcontrol(t, c.flow)

Control(t) ==
    \/ Flush(t)
    \/ FlushInput(t)
    \/ FlushOutput(t)
    \/ SendBreak(t)
    \/ \E level \in BOOLEAN : SetBreak(t, level)
    \/ \E level \in BOOLEAN : SetRTS(t, level)
    \/ \E level \in BOOLEAN : SetDTR(t, level)
    \/ GetCTS(t)
    \/ GetDSR(t)
    \/ GetRI(t)
    \/ GetCD(t)
    \/ WaitForChange(t)
    \/ WaitForChangeQuery(t)
    \/ WaitForChangePoll(t)
    \/ WaitForChangeWake(t)

Locks(t) ==
    \/ ReadLock(t)
    \/ ReadUnlock(t)
    \/ WriteLock(t)
    \/ WriteUnlock(t)

\* Requested sizes.
MaxSize == 2

\* Timeout values the callers set.
Timeouts ==
    {NoTimeout,
     [inter_byte_timeout |-> 1, read_timeout_constant |-> 2,
      read_timeout_multiplier |-> 0, write_timeout_constant |-> 1,
      write_timeout_multiplier |-> 0],
     [inter_byte_timeout |-> TimeoutMax, read_timeout_constant |-> 0,
      read_timeout_multiplier |-> 1, write_timeout_constant |-> 0,
      write_timeout_multiplier |-> 1]}

ReadSteps(t) ==
    \/ ReadPrefill(t)
    \/ ReadLoop(t)
    \/ ReadWait(t)
    \/ ReadReady(t)
    \/ ReadXfer(t)

WriteSteps(t) ==
    \/ WriteLoop(t)
    \/ WriteWait(t)
    \/ WriteXfer(t)

Next ==
    \/ Lifecycle("c")
    \/ Control("c")
    \/ Locks("c")
    \/ ReconfigurePortCall("c")
    \/ Available("c")
    \/ \E to \in {NoTimeout, CHOOSE x \in Timeouts : x # NoTimeout} :
         SetTimeout("c", to)
    \/ \E size \in {0, 1} : ReadCall("c", size)
    \/ \E length \in {0, 1} : WriteCall("c", length)
    \/ ReadSteps("c")
    \/ WriteSteps("c")
    \/ Tick

Spec == Init /\ [][Next]_vars

\* ------------------------------------- specification of the configuration
\* Open, Close and the setters over every configuration of Configs.
InitCfg ==
    /\ platform \in Platforms
    /\ peer = "quiet"
    /\ lines = {}
    /\ \E port \in Ports, c \in Configs : Constructed(port, c)

NextCfg ==
    \/ Open("c")
    \/ OpenRetry("c")
    \/ Close("c")
    \/ \E p \in Ports : SetPort("c", p)
    \/ \E b \in Bauds : SetBaudrate("c", b)
    \/ \E b \in ByteSizes : SetBytesize("c", b)
    \/ \E p \in Parities : SetParity("c", p)
    \/ \E sb \in StopBits : SetStopbits("c", sb)
    \/ \E f \in FlowControls : SetFlowcontrol("c", f)

SpecCfg == InitCfg /\ [][NextCfg]_vars

\* ------------------------------------------ specification of the transfers
\* One caller reads from and writes to an open port whose peer sends a
\* stream, under each timeout of Timeouts.  Read and Write have no build
\* conditional: one build stands for all.
InitIO ==
    /\ platform = "linux"
    /\ peer = "live"
    /\ lines = {}
    /\ Constructed("ttyS0",
                   [baud |-> 9600, bytesize |-> eightbits,
                    parity |-> parity_none, stopbits |-> stopbits_one,
                    flow |-> flowcontrol_none])

NextIO ==
    \/ \E to \in Timeouts : SetTimeout("c", to)
    \/ \E size \in 0..MaxSize : ReadCall("c", size)
    \/ \E length \in 0..MaxSize : WriteCall("c", length)
    \/ ReadSteps("c")
    \/ WriteSteps("c")
    \/ PeerSend
    \/ Tick

SpecIO == InitIO /\ [][NextIO]_vars

\* The steps the calling thread takes by itself: every step of a call that
\* does not wait, and the return of a pselect whose timeout has passed.
CallerRuns ==
    \/ ReadSteps("c") /\ call["c"].pc # "wait"
    \/ WriteSteps("c") /\ call["c"].pc # "wwait"
    \/ ReadWaitOn("c", "timeout")
    \/ WriteWaitOn("c", "timeout")

\* The clock advances and the calling thread runs.  Nothing is assumed of the
\* peer, of signals or of failures.
FairIO == WF_vars(Tick) /\ WF_vars(CallerRuns)

\* Number of calls made in the specification with fairness.
MaxFairCalls == 2

NextFair ==
    \/ ncalls < MaxFairCalls /\ \E to \in Timeouts : SetTimeout("c", to)
    \/ ncalls < MaxFairCalls /\ \E size \in 0..MaxSize : ReadCall("c", size)
    \/ ncalls < MaxFairCalls /\
          \E length \in 0..MaxSize : WriteCall("c", length)
    \/ ReadSteps("c")
    \/ WriteSteps("c")
    \/ PeerSend
    \/ Tick

SpecIOFair == InitIO /\ [][NextFair]_vars /\ FairIO

\* ------------------------------------------- specification of the loopback
\* A reader thread "r" and a writer thread "w" use one open port whose device
\* hands back what is written to it.  Thread "c" sets the timeout first; then
\* each thread makes its calls inside its own lock: ReadLock, Read, ReadUnlock
\* and WriteLock, Write, WriteUnlock.
InitLoop ==
    /\ platform = "linux"
    /\ peer = "loop"
    /\ lines = {}
    /\ Constructed("ttyS0",
                   [baud |-> 9600, bytesize |-> eightbits,
                    parity |-> parity_none, stopbits |-> stopbits_one,
                    flow |-> flowcontrol_none])

\* Sizes the two threads ask for: one byte, and two so that a request can be
\* met in two transfers.
LoopSizes == {1, 2}

\* Calls thread t has still to make to leave the lock it holds.
Owed(t) ==
    IF read_mutex = t \/ write_mutex = t
    THEN IF last[t].op \in {"ReadLock", "WriteLock"} THEN 2 ELSE 1
    ELSE 0

\* Thread t may take its lock: the calls left are enough for it and for the
\* other thread to leave their locks.
MayLock(t, other) ==
    /\ ncalls >= 1
    /\ ncalls + 3 + Owed(other) <= MaxLoopCalls

\* A call in progress has not reached its deadline: only then does the
\* passing of time change what it does.
BeforeDeadline ==
    \E t \in Threads : InCall(t) /\ call[t].elapsed < call[t].total

Reader(t) ==
    \/ MayLock(t, "w") /\ ReadLock(t)
    \/ /\ read_mutex = t
       /\ last[t].op = "ReadLock"
       /\ \E size \in LoopSizes : ReadCall(t, size)
    \/ ReadSteps(t)
    \/ last[t].op = "Read" /\ ReadUnlock(t)

Writer(t) ==
    \/ MayLock(t, "r") /\ WriteLock(t)
    \/ /\ write_mutex = t
       /\ last[t].op = "WriteLock"
       /\ \E length \in LoopSizes : WriteCall(t, length)
    \/ WriteSteps(t)
    \/ last[t].op = "Write" /\ WriteUnlock(t)

NextLoop ==
    \/ ncalls = 0 /\ \E to \in Timeouts : SetTimeout("c", to)
    \/ Reader("r")
    \/ Writer("w")
    \/ BeforeDeadline /\ Tick

SpecLoop == InitLoop /\ [][NextLoop]_vars

\* The steps a thread inside its lock takes by itself: it starts the call it
\* took the lock for, runs every step of the call that does not wait,
\* returns from a pselect whose timeout has passed, and unlocks.
ReaderRuns(t) ==
    \/ /\ read_mutex = t
       /\ last[t].op = "ReadLock"
       /\ \E size \in LoopSizes : ReadCall(t, size)
    \/ ReadSteps(t) /\ call[t].pc # "wait"
    \/ ReadWaitOn(t, "timeout")
    \/ last[t].op = "Read" /\ ReadUnlock(t)

WriterRuns(t) ==
    \/ /\ write_mutex = t
       /\ last[t].op = "WriteLock"
       /\ \E length \in LoopSizes : WriteCall(t, length)
    \/ WriteSteps(t) /\ call[t].pc # "wwait"
    \/ WriteWaitOn(t, "timeout")
    \/ last[t].op = "Write" /\ WriteUnlock(t)

\* Thread t can go on: it can take a step by itself, or it waits in a
\* pselect whose timeout the clock has still to reach.
CanGoOn(t) ==
    \/ ENABLED ReaderRuns(t)
    \/ ENABLED WriterRuns(t)
    \/ /\ call[t].pc \in {"wait", "wwait"}
       /\ call[t].elapsed < call[t].until
       /\ ENABLED (BeforeDeadline /\ Tick)

\* ---------------------------------------------- specification of the locks
\* Every thread calls the four lock operations in any order.
NextLocks == \E t \in Threads : Locks(t)

SpecLocks == InitLoop /\ [][NextLocks]_vars

\* ------------------------------------------- specification of the lifecycle
\* Open, Close and SetPort, with the thread inside Open running: an Open that
\* was interrupted makes its next attempt.  Nothing is assumed of the results
\* of ::open beyond the bound on the interrupts in a row.
NextOpen ==
    \/ Open("c")
    \/ OpenRetry("c")
    \/ Close("c")
    \/ \E p \in Ports : SetPort("c", p)

SpecOpenFair == InitCfg /\ [][NextOpen]_vars /\ WF_vars(OpenRetry("c"))

\* ------------------------------------------- specification of the byte time
\* An open port of the Linux build, which has every parity, constructed with
\* any framing and any of the rates of TimingBauds, all of them cases of the
\* switch of ReconfigurePort, is given one new value by one of its setters.
TimingBauds == {0, 50, 9600, 115200, 4000000}

\* The valid values of the three framing fields.
TimingSizes == {fivebits, sixbits, sevenbits, eightbits}
TimingParities ==
    {parity_none, parity_odd, parity_even, parity_mark, parity_space}
TimingStopBits == {stopbits_one, stopbits_one_point_five, stopbits_two}

TimingConfigs ==
    [baud : TimingBauds, bytesize : TimingSizes, parity : TimingParities,
     stopbits : TimingStopBits, flow : {flowcontrol_none}]

InitTiming ==
    /\ platform = "linux"
    /\ peer = "quiet"
    /\ lines = {}
    /\ \E c \in TimingConfigs : Constructed("ttyS0", c)

NextTiming ==
    \/ ncalls = 0 /\ \E b \in TimingBauds : SetBaudrate("c", b)
    \/ ncalls = 0 /\ \E b \in TimingSizes : SetBytesize("c", b)
    \/ ncalls = 0 /\ \E p \in TimingParities : SetParity("c", p)
    \/ ncalls = 0 /\ \E sb \in TimingStopBits : SetStopbits("c", sb)

SpecTiming == InitTiming /\ [][NextTiming]_vars

\* ------------------------------------------ specification of the input count
\* One caller opens and closes a port whose peer sends a stream and asks for
\* the count of unread bytes at any time.
NextAvail ==
    \/ Available("c")
    \/ Open("c")
    \/ OpenRetry("c")
    \/ Close("c")
    \/ PeerSend

SpecAvail == InitIO /\ [][NextAvail]_vars

\* ------------------------------------------- specification of the long waits
\* The caller of the transfers with total timeouts of 2^UintBits ms and more,
\* so that the narrowed remaining time differs from the remaining time.
LongTimeouts ==
    {[inter_byte_timeout |-> 1, read_timeout_constant |-> Wrap + 1,
      read_timeout_multiplier |-> 0, write_timeout_constant |-> Wrap + 1,
      write_timeout_multiplier |-> 0],
     [inter_byte_timeout |-> TimeoutMax, read_timeout_constant |-> 0,
      read_timeout_multiplier |-> Wrap - 1, write_timeout_constant |-> Wrap,
      write_timeout_multiplier |-> 1]}

\* Number of system calls one call issues: a pselect whose narrowed timeout
\* is 0 returns at once and the loop issues the next one, without end while
\* the clock stands.
MaxSysCalls == 5

NextWait ==
    \/ ncalls = 0 /\ \E to \in LongTimeouts : SetTimeout("c", to)
    \/ \E size \in 1..MaxSize : ReadCall("c", size)
    \/ \E length \in 1..MaxSize : WriteCall("c", length)
    \/ Len(call["c"].os) < MaxSysCalls /\ ReadSteps("c")
    \/ Len(call["c"].os) < MaxSysCalls /\ WriteSteps("c")
    \/ PeerSend
    \/ Tick

SpecWait == InitIO /\ [][NextWait]_vars

\* --------------------------------------- specification of the byte-time sleep
\* A port at 50 baud, 8 data bits, no parity, 1 stop bit (200 ms a byte)
\* whose caller reads 1, 2 or 6 bytes under each timeout.
InitSleep ==
    /\ platform = "linux"
    /\ peer = "live"
    /\ lines = {}
    /\ Constructed("ttyS0",
                   [baud |-> 50, bytesize |-> eightbits,
                    parity |-> parity_none, stopbits |-> stopbits_one,
                    flow |-> flowcontrol_none])

SleepSizes == {1, 2, 6}

\* Total timeouts of 2 ms whatever the size, with the inter-byte timeout
\* set and disabled.
SleepTimeouts ==
    {[inter_byte_timeout |-> ibt, read_timeout_constant |-> 2,
      read_timeout_multiplier |-> 0, write_timeout_constant |-> 0,
      write_timeout_multiplier |-> 0] : ibt \in {1, TimeoutMax}}

NextSleep ==
    \/ ncalls = 0 /\ \E to \in SleepTimeouts : SetTimeout("c", to)
    \/ \E size \in SleepSizes : ReadCall("c", size)
    \/ ReadSteps("c")
    \/ PeerSend
    \/ Tick

SpecSleep == InitSleep /\ [][NextSleep]_vars

\* --------------------------------------- specification of the interrupted waits
\* The caller of the transfers with a clock that advances only while the
\* thread waits in pselect: the steps between two system calls take no time,
\* so the first wait of a call starts with the whole total timeout.
Waiting == \E t \in Threads : call[t].pc \in {"wait", "wwait"}

NextIntr ==
    \/ ncalls = 0 /\ \E to \in Timeouts : SetTimeout("c", to)
    \/ \E size \in 0..MaxSize : ReadCall("c", size)
    \/ \E length \in 0..MaxSize : WriteCall("c", length)
    \/ ReadSteps("c")
    \/ WriteSteps("c")
    \/ PeerSend
    \/ Waiting /\ Tick

SpecIntr == InitIO /\ [][NextIntr]_vars

\* ----------------------------------------- specification of the status lines
\* A build without TIOCMIWAIT.  Thread "r" calls WaitForChange while thread
\* "c" closes and opens the port and the peer raises and drops CTS and CD.
PolledLines == {"CTS", "CD"}

\* The peer changes one status line; every WaitForChange in progress has
\* then seen a change since it began.
LineChange ==
    /\ \E l \in PolledLines :
         lines' = IF l \in lines THEN lines \ {l} ELSE lines \cup {l}
    /\ call' = [t \in Threads |->
                  IF call[t].pc \in {"query", "poll", "miwait"}
                  THEN [call[t] EXCEPT !.changed = TRUE]
                  ELSE call[t]]
    /\ UNCHANGED <<platform, port_, fd_, is_open_, cfgvars, derivedvars,
                   timeout_, lockvars, os_fds, peer, sent, rxbuf, last,
                   histvars, ncalls>>

InitLines ==
    /\ platform \in {"osx", "posix"}
    /\ peer = "quiet"
    /\ lines \in {{}, {"CTS"}}
    /\ Constructed("ttyS0",
                   [baud |-> 9600, bytesize |-> eightbits,
                    parity |-> parity_none, stopbits |-> stopbits_one,
                    flow |-> flowcontrol_none])

NextLines ==
    \/ WaitForChange("r")
    \/ WaitForChangeQuery("r")
    \/ WaitForChangePoll("r")
    \/ Open("c")
    \/ OpenRetry("c")
    \/ Close("c")
    \/ LineChange

SpecLines == InitLines /\ [][NextLines]_vars

\* -------------------------------------- specification of the concurrent close
\* Thread "r" makes one Read and thread "w" one Write, one after the other,
\* while thread "c", which set the timeout first, closes the port: Close
\* takes neither mutex and Read and Write take none by themselves.
NextClose ==
    \/ ncalls = 0 /\ \E to \in Timeouts : SetTimeout("c", to)
    \/ /\ last["r"].op = "none"
       /\ IsIdle("w")
       /\ \E size \in LoopSizes : ReadCall("r", size)
    \/ ReadSteps("r")
    \/ /\ last["w"].op = "none"
       /\ IsIdle("r")
       /\ \E length \in LoopSizes : WriteCall("w", length)
    \/ WriteSteps("w")
    \/ last["c"].op # "Close" /\ Close("c")
    \/ PeerSend
    \/ BeforeDeadline /\ Tick

SpecClose == InitIO /\ [][NextClose]_vars

\* ------------------------------------------------- doubles (matrix_inl.h)
\* A double is a finite value, an infinity or a NaN.  The finite values the
\* conversion meets here are multiples of 1/2 of small magnitude, which
\* binary64 holds exactly: a finite double is kept as the whole number v of
\* halves it stands for, and no sum or product below is rounded.
Fin(v) == [k |-> "fin", v |-> v]
PInf == [k |-> "inf", v |-> 1]
NInf == [k |-> "inf", v |-> -1]
NaN == [k |-> "nan", v |-> 0]

One == Fin(2)
Zero == Fin(0)
Half == Fin(1)

Sgn(x) == IF x.v > 0 THEN 1 ELSE IF x.v < 0 THEN -1 ELSE 0

DNeg(x) == [x EXCEPT !.v = -x.v]

\* x + y: a NaN operand gives NaN, and so do two infinities of opposite sign.
DAdd(x, y) ==
    IF x.k = "nan" \/ y.k = "nan" THEN NaN
    ELSE IF x.k = "inf" /\ y.k = "inf"
         THEN IF x.v = y.v THEN x ELSE NaN
    ELSE IF x.k = "inf" THEN x
    ELSE IF y.k = "inf" THEN y
    ELSE Fin(x.v + y.v)

DSub(x, y) == DAdd(x, DNeg(y))

\* x * y: a NaN operand gives NaN, and so does an infinity times zero.  Of
\* two finite factors one is a whole number in every product of the
\* conversion, so that the product of the halves is even.
DMul(x, y) ==
    IF x.k = "nan" \/ y.k = "nan" THEN NaN
    ELSE IF x.k = "inf" \/ y.k = "inf"
         THEN IF Sgn(x) * Sgn(y) = 0 THEN NaN
              ELSE IF Sgn(x) * Sgn(y) > 0 THEN PInf ELSE NInf
    ELSE Fin((x.v * y.v) \div 2)

\* x > y: false as soon as one side is a NaN.
DGt(x, y) ==
    IF x.k = "nan" \/ y.k = "nan" THEN FALSE
    ELSE IF x.k = "inf" THEN x.v = 1 /\ y # PInf
    ELSE IF y.k = "inf" THEN y.v = -1
    ELSE x.v > y.v

\* ---------------------------------------------------------------- RotToQuat
Idx == 0 .. 2

Identity == [i \in Idx |-> [j \in Idx |-> IF i = j THEN One ELSE Zero]]

Sum3(f) == DAdd(DAdd(f[0], f[1]), f[2])

\* a * b and the transpose of a, for 3 x 3 matrices.
MatMul(a, b) ==
    [i \in Idx |-> [j \in Idx |->
        Sum3([k \in Idx |-> DMul(a[i][k], b[k][j])])]]

Transpose(a) == [i \in Idx |-> [j \in Idx |-> a[j][i]]]

MatSub(a, b) == [i \in Idx |-> [j \in Idx |-> DSub(a[i][j], b[i][j])]]

MatAdd(a, b) == [i \in Idx |-> [j \in Idx |-> DAdd(a[i][j], b[i][j])]]

Scale(a, s) == [i \in Idx |-> [j \in Idx |-> DMul(a[i][j], s)]]

\* r = m + (Identity - m * m^T) * 0.5 * m.
Orthonormalized(m) ==
    MatAdd(m, MatMul(Scale(MatSub(Identity, MatMul(m, Transpose(m))), Half),
                     m))

\* The selectors m1 .. m4 of r, in this order.
Selectors(r) ==
    << DAdd(DAdd(DAdd(One, r[0][0]), r[1][1]), r[2][2]),
       DSub(DSub(DAdd(One, r[0][0]), r[1][1]), r[2][2]),
       DSub(DAdd(DSub(One, r[0][0]), r[1][1]), r[2][2]),
       DAdd(DSub(DSub(One, r[0][0]), r[1][1]), r[2][2]) >>

\* The branch the if / else-if cascade takes.
Branch(ms) ==
    IF DGt(ms[1], ms[2]) /\ DGt(ms[1], ms[3]) /\ DGt(ms[1], ms[4]) THEN 1
    ELSE IF DGt(ms[2], ms[3]) /\ DGt(ms[2], ms[4]) THEN 2
    ELSE IF DGt(ms[3], ms[4]) THEN 3
    ELSE 4

\* Inside its branch the conversion tests `mi > 0` and throws runtime_error
\* in the else part.
Throws(ms) == ~DGt(ms[Branch(ms)], Zero)

\* The record of a finished RotToQuat: its argument, the selectors, the
\* branch taken (val) and whether it returned or threw.  The components of
\* the quaternion (a square root, three quotients, normalize) are not kept.
QuatCall(m, ms) ==
    [op |-> "RotToQuat",
     res |-> IF Throws(ms) THEN "runtime_error" ELSE "ok",
     val |-> Branch(ms), m |-> m, ms |-> ms]

\* Thread t calls RotToQuat(m): r and the four selectors are computed.
RotToQuatCall(t, m) ==
    /\ Begin(t)
    /\ LET r == Orthonormalized(m)
       IN  call' = [call EXCEPT ![t] =
                      [pc |-> "select", m |-> m, r |-> r,
                       ms |-> Selectors(r)]]
    /\ last' = [last EXCEPT ![t] = [op |-> "RotToQuat", res |-> "running"]]
    /\ UNCHANGED <<platform, port_, fd_, is_open_, cfgvars, derivedvars,
                   timeout_, lockvars, os_fds, histvars, devvars>>

\* The cascade: the call returns the quaternion of its branch or throws.
RotToQuatSelect(t) ==
    /\ call[t].pc = "select"
    /\ call' = [call EXCEPT ![t] = Idle]
    /\ last' = [last EXCEPT ![t] = QuatCall(call[t].m, call[t].ms)]
    /\ UNCHANGED <<platform, port_, fd_, is_open_, cfgvars, derivedvars,
                   timeout_, lockvars, os_fds, histvars, devvars, ncalls>>

\* ------------------------------------------- specification of RotToQuat
\* The arguments: every matrix with entries -1, 0, 1 (the 24 rotations that
\* permute the axes among them, and matrices that are no rotation), and the
\* diagonal ones of them with one entry replaced by a NaN or an infinity.
Entries == {Fin(-2), Zero, One}

NonFinite == {NaN, PInf, NInf}

SmallMatrices == [Idx -> [Idx -> Entries]]

Diagonals ==
    {[i \in Idx |-> [j \in Idx |-> IF i = j THEN d[i] ELSE Zero]] :
        d \in [Idx -> Entries]}

NonFiniteMatrices ==
    {[b EXCEPT ![p[1]][p[2]] = s] :
        b \in Diagonals, p \in Idx \X Idx, s \in NonFinite}

Matrices == SmallMatrices \cup NonFiniteMatrices

\* RotToQuat is a free function: no port takes part.
InitQuat ==
    /\ platform = "linux"
    /\ peer = "quiet"
    /\ lines = {}
    /\ Constructed("",
                   [baud |-> 9600, bytesize |-> eightbits,
                    parity |-> parity_none, stopbits |-> stopbits_one,
                    flow |-> flowcontrol_none])

\* One call of RotToQuat by the caller.
NextQuat ==
    \/ ncalls = 0 /\ \E m \in Matrices : RotToQuatCall("c", m)
    \/ RotToQuatSelect("c")

SpecQuat == InitQuat /\ [][NextQuat]_vars

\* ================================================================= claims
\* The caller of the specifications starts a call of one of the operations
\* ops in this step.
Starts(ops) == ncalls' = ncalls + 1 /\ last'["c"].op \in ops

\* The step leaves the operating system and the device as they were.
NoOsEffect == UNCHANGED <<os_fds, devvars, histvars>>

\* C1: a Read or a Write called while is_open_ is false ends at once with the
\* port-not-open failure, having made no system call and changed nothing of
\* the descriptors and of the device, whatever the requested size (0
\* included).
C1_ClosedReadWriteFail ==
    [][(Starts({"Read", "Write"}) /\ ~is_open_) =>
          /\ last'["c"].res = "not_open"
          /\ last'["c"].os = <<>>
          /\ call'["c"].pc = "idle"
          /\ NoOsEffect]_vars

\* A Write was refused on a closed port that still holds a descriptor.
C1_Witness ==
    /\ ~is_open_
    /\ fd_ # NoFd
    /\ last["c"].op = "Write"
    /\ last["c"].res = "not_open"

\* The operations of C2 other than WaitForChange.
GuardedControlOps ==
    {"Flush", "FlushInput", "FlushOutput", "SendBreak", "SetBreak", "SetRTS",
     "SetDTR", "GetCTS", "GetDSR", "GetRI", "GetCD"}

\* C2: each of Flush, FlushInput, FlushOutput, SendBreak, SetBreak, SetRTS,
\* SetDTR, GetCTS, GetDSR, GetRI, GetCD and WaitForChange, called while the
\* port is closed, ends at once with the port-not-open failure and makes no
\* system call on the descriptor.
C2_ClosedControlFail ==
    [][(Starts(GuardedControlOps \cup {"WaitForChange"}) /\ ~is_open_) =>
          /\ last'["c"].res = "not_open"
          /\ last'["c"].os = <<>>
          /\ call'["c"].pc = "idle"
          /\ NoOsEffect]_vars

\* C2 for the eleven operations that test is_open_: it holds of them.
C2_GuardedControlFail ==
    [][(Starts(GuardedControlOps) /\ ~is_open_) =>
          /\ last'["c"].res = "not_open"
          /\ last'["c"].os = <<>>
          /\ call'["c"].pc = "idle"
          /\ NoOsEffect]_vars

\* What a refused call leaves alone: the object and the operating system.
ObjectUnchanged ==
    UNCHANGED <<port_, fd_, is_open_, cfgvars, derivedvars, timeout_, os_fds,
                devvars>>

\* C3 as stated: Open fails with invalid-argument whenever port_ is empty and
\* with already-open whenever is_open_ is true; in both cases ::open is not
\* called and is_open_, fd_ and the configuration keep their values.
C3_OpenRefused ==
    [][Starts({"Open"}) =>
          /\ port_ = "" => last'["c"].res = "invalid_argument"
          /\ is_open_ => last'["c"].res = "already_open"
          /\ (port_ = "" \/ is_open_) =>
                 (last'["c"].os = <<>> /\ ObjectUnchanged)]_vars

\* C3 with the order of the two tests: Open fails with invalid-argument
\* whenever port_ is empty, and with already-open when port_ is not empty and
\* is_open_ is true; in both cases ::open is not called and is_open_, fd_ and
\* the configuration keep their values.
C3_OpenRefusedInOrder ==
    [][Starts({"Open"}) =>
          /\ port_ = "" => last'["c"].res = "invalid_argument"
          /\ (port_ # "" /\ is_open_) => last'["c"].res = "already_open"
          /\ (port_ = "" \/ is_open_) =>
                 (last'["c"].os = <<>> /\ call'["c"].pc = "idle" /\
                  ObjectUnchanged)]_vars

\* Open was refused on an open port with a name.
C3_Witness ==
    /\ is_open_
    /\ port_ # ""
    /\ last["c"].op = "Open"
    /\ last["c"].res = "already_open"

\* C4: Close called on a closed port changes nothing, and Close called on an
\* open port ends with is_open_ false, also when ::close fails and the call
\* ends with the I/O failure.
C4_CloseAlwaysCloses ==
    [][Starts({"Close"}) =>
          /\ ~is_open_'
          /\ call'["c"].pc = "idle"
          /\ ~is_open_ => (last'["c"].res = "ok" /\ last'["c"].os = <<>> /\
                           ObjectUnchanged)
          /\ (is_open_ /\ last'["c"].res # "ok") =>
                 last'["c"].res = "io_error"]_vars

\* C5: whenever is_open_ is false, fd_ is the closed sentinel and the process
\* holds no descriptor of the port.
C5_ClosedHoldsNoHandle == ~is_open_ => (fd_ = NoFd /\ os_fds = {})

\* C6: is_open_ becomes true only in the step that ends an Open without
\* exception, after its ReconfigurePort applied the options, and becomes
\* false only in a step of Close; no step of any other call changes it.
C6_OpenCloseOnly ==
    [][/\ (~is_open_ /\ is_open_') =>
             /\ last'["c"].op = "Open"
             /\ last'["c"].res = "ok"
             /\ last'["c"].reconf
             /\ Len(last'["c"].applied) = 1
             /\ call'["c"].pc = "idle"
       /\ (is_open_ /\ ~is_open_') =>
             /\ ncalls' = ncalls + 1
             /\ last'["c"].op = "Close"]_vars

\* The port was closed, opened again and closed again.
C6_Witness ==
    /\ ~is_open_
    /\ ncalls = 3
    /\ last["c"].op = "Close"
    /\ last["c"].os = <<"close">>
    /\ os_fds = {}

SetterOps ==
    {"SetBaudrate", "SetBytesize", "SetParity", "SetStopbits", "SetFlowcontrol"}

\* The configuration fields after the setter op stored v.
Stored(op, v) ==
    IF op = "SetBaudrate" THEN [Cfg EXCEPT !.baud = v]
    ELSE IF op = "SetBytesize" THEN [Cfg EXCEPT !.bytesize = v]
    ELSE IF op = "SetParity" THEN [Cfg EXCEPT !.parity = v]
    ELSE IF op = "SetStopbits" THEN [Cfg EXCEPT !.stopbits = v]
    ELSE [Cfg EXCEPT !.flow = v]

\* C7: a configuration setter stores its value in its field and leaves the
\* other fields alone; it runs ReconfigurePort exactly when is_open_ is true;
\* on a closed port it makes no system call and changes neither the
\* descriptors, the device nor the derived fields; and an Open that succeeds
\* hands to tcsetattr the options of the values stored at that time.
C7_SetterStages ==
    [][/\ Starts(SetterOps) =>
             /\ Cfg' = Stored(last'["c"].op, last'["c"].val)
             /\ last'["c"].reconf = is_open_
             /\ ~is_open_ =>
                    /\ last'["c"].res = "ok"
                    /\ last'["c"].os = <<>>
                    /\ NoOsEffect
                    /\ UNCHANGED <<fd_, is_open_, derivedvars>>
       /\ (~is_open_ /\ is_open_') =>
             /\ last'["c"].applied = <<Options(Cfg, xonxoff_', rtscts_')>>
             /\ byte_time_ns_' =
                    ByteTimeNs(baudrate_, bytesize_, parity_, stopbits_)]_vars

\* A port constructed open at 9600 baud was closed, given the rate 12345
\* while closed, and opened again with that rate in force.
C7_Witness ==
    /\ is_open_
    /\ ncalls = 3
    /\ last["c"].op = "Open"
    /\ last["c"].res = "ok"
    /\ baudrate_ = 12345
    /\ byte_time_ns_ = ByteTimeNs(12345, bytesize_, parity_, stopbits_)

\* The first k bytes of the peer's stream.
Stream(k) == [i \in 1..k |-> i]

\* The last k elements of the sequence q.
LastOf(q, k) == SubSeq(q, Len(q) - k + 1, Len(q))

ReadPcs == {"prefill", "loop", "wait", "ready", "xfer"}
WritePcs == {"wloop", "wwait", "wxfer"}

\* C8: the bytes Read has taken from the device are a prefix of the peer's
\* stream and what remains is queued behind them; a Read in progress holds
\* in buf[0..n) exactly the bytes it has taken, in arrival order; and while no
\* Read has thrown after taking bytes, the returned bytes of all finished
\* Reads followed by those held by the Read in progress are the bytes taken:
\* in particular a Read that returns k < N at its deadline returns the k
\* bytes it took.
C8_ReadAccounting ==
    LET c == call["c"]
        held == IF c.pc \in ReadPcs THEN SubSeq(c.buf, 1, c.n) ELSE <<>>
    IN  /\ consumed \o rxbuf = Stream(sent)
        /\ c.pc \in ReadPcs => Len(c.buf) = c.n
        /\ ~faulted => returned \o held = consumed
        /\ (last["c"].op = "Read" /\ last["c"].res = "ok" /\ ~faulted) =>
               /\ last["c"].val <= Len(returned)
               /\ LastOf(returned, last["c"].val) =
                      LastOf(consumed, last["c"].val)

\* A Read of 2 bytes returned 1 byte at its deadline, and that byte is the
\* first of the stream.
C8_Witness ==
    /\ last["c"].op = "Read"
    /\ last["c"].res = "ok"
    /\ last["c"].size = 2
    /\ last["c"].val = 1
    /\ returned = <<1>>
    /\ call["c"].pc = "idle"

\* The bytes call number k has put on the wire, and the first n bytes of its
\* data.
OnWire(k) == SelectSeq(wire, LAMBDA e : e[1] = k)
Data(k, n) == [i \in 1..n |-> <<k, i>>]

\* C9: the count of a Read or Write in progress stays within 0 .. size; the
\* value a Read or Write returns is at most the size asked; the bytes a Write
\* has put on the wire are the first n of its data, n being its count, so
\* that a Write whose whole data went out returns the size asked; and no Read
\* or Write ends with the over-read or over-write failure.
C9_CountWithinRequest ==
    LET c == call["c"]
        l == last["c"]
    IN  /\ c.pc \in ReadPcs \cup WritePcs => (0 <= c.n /\ c.n <= c.size)
        /\ c.pc \in WritePcs => OnWire(ncalls) = Data(ncalls, c.n)
        /\ l.op \in {"Read", "Write"} =>
               /\ 0 <= l.val /\ l.val <= l.size
               /\ l.res \notin {"over_read", "over_write"}
        /\ (l.op = "Write" /\ l.res = "ok" /\ c.pc = "idle") =>
               /\ OnWire(ncalls) = Data(ncalls, l.val)
               /\ Len(OnWire(ncalls)) = l.size => l.val = l.size

\* A Write of 2 bytes went out in two transfers and returned 2.
C9_Witness ==
    /\ last["c"].op = "Write"
    /\ last["c"].res = "ok"
    /\ last["c"].size = 2
    /\ last["c"].val = 2
    /\ last["c"].os = <<"pselect", "write", "pselect", "write">>

\* C10: a Read or Write that finds its total timeout used up before the
\* request is satisfied returns at once, without exception, the count it has,
\* which is smaller than the size asked; the pselect of Write that times out
\* does the same; and under FairIO every Read and Write in progress ends.
C10_TimeoutReturns ==
    /\ [][\A pc \in {"loop", "wloop"} :
             (/\ call["c"].pc = pc
              /\ call'["c"].pc # pc
              /\ call["c"].n < call["c"].size
              /\ call["c"].elapsed >= call["c"].total) =>
                /\ call'["c"].pc = "idle"
                /\ last'["c"].res = "ok"
                /\ last'["c"].val = call["c"].n
                /\ last'["c"].val < last'["c"].size]_vars
    /\ [][(/\ call["c"].pc = "wwait"
           /\ call["c"].elapsed >= call["c"].until
           /\ call'["c"].pc = "idle"
           /\ last'["c"].os = call["c"].os
           /\ last'["c"].res # "io_error") =>
             /\ last'["c"].res = "ok"
             /\ last'["c"].val = call["c"].n
             /\ last'["c"].val < last'["c"].size]_vars
    /\ (call["c"].pc # "idle") ~> (call["c"].pc = "idle")

\* A Read with a total timeout of 2 ms returned no byte after its deadline
\* had passed in a pselect.
C10_Witness ==
    /\ last["c"].op = "Read"
    /\ last["c"].res = "ok"
    /\ last["c"].size = 1
    /\ last["c"].val = 0
    /\ last["c"].os = <<"read", "pselect", "pselect">>
    /\ timeout_.read_timeout_constant = 2

\* The sequence p is a prefix of the sequence q.
IsPrefix(p, q) == Len(p) <= Len(q) /\ p = SubSeq(q, 1, Len(p))

\* The bytes the Read in progress of thread t holds.
Held(t) ==
    IF call[t].pc \in ReadPcs THEN SubSeq(call[t].buf, 1, call[t].n) ELSE <<>>

\* C11: over the loopback, with thread "w" writing and thread "r" reading
\* concurrently, the device holds in order the accepted bytes not yet taken;
\* and while no Read has thrown after taking bytes, the bytes the Reads have
\* returned, followed by those the Read in progress holds, are the bytes
\* taken, so that the returned bytes are a prefix of the bytes the Writes put
\* on the wire: in order and unmodified under every interleaving.
C11_LoopbackInOrder ==
    /\ consumed \o rxbuf = wire
    /\ ~faulted =>
          /\ returned \o Held("r") = consumed
          /\ IsPrefix(returned, wire)

\* A Read of two bytes that started before the Write did returned the two
\* bytes of that Write, which went out in two transfers.
C11_Witness ==
    /\ Len(returned) = 2
    /\ returned = wire
    /\ call["r"].pc = "idle"
    /\ last["r"].op = "Read"
    /\ last["r"].res = "ok"
    /\ last["r"].val = 2
    /\ call["w"].pc = "idle"
    /\ last["w"].op = "Write"
    /\ last["w"].val = 2
    /\ last["w"].os = <<"pselect", "write", "pselect", "write">>
    /\ last["r"].id < last["w"].id
    /\ ~faulted

\* C12: a Read in thread "r" inside ReadLock/ReadUnlock and a Write in thread
\* "w" inside WriteLock/WriteUnlock on the same open port.  No thread ever
\* waits for the other: the read mutex is free or held by "r", the write
\* mutex free or held by "w", and a thread that holds its lock can always go
\* on, whatever the other thread does, until it has released the lock.  The
\* count of a Write, in progress or ended, is the number of
\* bytes of its data that went out; the count of a Read in progress is the
\* number of bytes taken and not yet returned, and a Read that returns hands
\* back exactly those bytes, their number being the value it returns (for
\* runs in which no Read has thrown after taking bytes).
C12_NoDeadlockOwnCounts ==
    /\ [](/\ read_mutex \in {"free", "r"}
          /\ write_mutex \in {"free", "w"}
          /\ \A t \in {"r", "w"} : Owed(t) > 0 => CanGoOn(t)
          /\ call["w"].pc \in WritePcs =>
                 OnWire(call["w"].id) = Data(call["w"].id, call["w"].n)
          /\ (call["w"].pc = "idle" /\ last["w"].op = "Write") =>
                 OnWire(last["w"].id) = Data(last["w"].id, last["w"].val)
          /\ ~faulted =>
                 Len(consumed) - Len(returned) =
                     (IF call["r"].pc \in ReadPcs THEN call["r"].n ELSE 0))
    /\ [][(/\ call["r"].pc \in ReadPcs
           /\ call'["r"].pc = "idle"
           /\ last'["r"].res = "ok"
           /\ ~faulted) =>
             /\ returned' =
                    returned \o
                    SubSeq(consumed', Len(returned) + 1, Len(consumed'))
             /\ last'["r"].val = Len(returned') - Len(returned)]_vars

\* The Write of two bytes has returned 2 and its thread still holds the write
\* mutex, while the Read that started before it, holding the read mutex, has
\* taken one byte and is still in progress.
C12_Witness ==
    /\ write_mutex = "w"
    /\ read_mutex = "r"
    /\ call["w"].pc = "idle"
    /\ last["w"].op = "Write"
    /\ last["w"].res = "ok"
    /\ last["w"].val = 2
    /\ call["r"].pc \in ReadPcs
    /\ call["r"].n = 1
    /\ call["r"].id < last["w"].id

\* C13: the two mutexes are independent domains of mutual exclusion.  Each
\* passes from one thread to another only by way of being free, and is freed
\* only by the ReadUnlock (WriteUnlock) of its holder; a step that changes the
\* read mutex is a ReadLock or ReadUnlock and leaves the write mutex alone,
\* and the other way round, so that no call takes both; and whenever the
\* write (read) mutex is free, every thread that can make a call can take it
\* at once, whoever holds the other mutex.
C13_IndependentGuards ==
    /\ [](\A t \in Threads :
             (IsIdle(t) /\ ncalls < CallBudget) =>
                /\ write_mutex = "free" => ENABLED WriteLock(t)
                /\ read_mutex = "free" => ENABLED ReadLock(t))
    /\ [][/\ read_mutex' # read_mutex =>
             /\ read_mutex = "free" \/ read_mutex' = "free"
             /\ read_mutex = "free" => last'[read_mutex'].op = "ReadLock"
             /\ read_mutex' = "free" => last'[read_mutex].op = "ReadUnlock"
             /\ write_mutex' = write_mutex
       /\ write_mutex' # write_mutex =>
             /\ write_mutex = "free" \/ write_mutex' = "free"
             /\ write_mutex = "free" => last'[write_mutex'].op = "WriteLock"
             /\ write_mutex' = "free" => last'[write_mutex].op = "WriteUnlock"
             /\ read_mutex' = read_mutex]_vars

\* Thread "w" took the write mutex while thread "r" held the read mutex, and
\* thread "c" has just been given the read mutex that "r" released.
C13_Witness ==
    /\ write_mutex = "w"
    /\ read_mutex = "c"
    /\ last["r"].op = "ReadUnlock"
    /\ last["w"].op = "WriteLock"
    /\ last["c"].op = "ReadLock"

\* C14: in Read and in Write, a ::read or ::write issued after pselect
\* reported readiness that moves no byte ends the call with SerialException
\* in that very step: no pselect and no transfer follows it.
C14_EmptyTransferIsFatal ==
    [][/\ (/\ call["c"].pc = "xfer"
           /\ call'["c"].pc # "xfer"
           /\ consumed' = consumed) =>
             /\ call'["c"].pc = "idle"
             /\ last'["c"].op = "Read"
             /\ last'["c"].res = "serial_error"
             /\ last'["c"].os = Append(call["c"].os, "read")
       /\ (/\ call["c"].pc = "wxfer"
           /\ call'["c"].pc # "wxfer"
           /\ wire' = wire) =>
             /\ call'["c"].pc = "idle"
             /\ last'["c"].op = "Write"
             /\ last'["c"].res = "serial_error"
             /\ last'["c"].os = Append(call["c"].os, "write")]_vars

\* A Write of two bytes sent one byte, was told the port was ready again,
\* wrote nothing and ended with SerialException.
C14_Witness ==
    /\ call["c"].pc = "idle"
    /\ last["c"].op = "Write"
    /\ last["c"].res = "serial_error"
    /\ last["c"].size = 2
    /\ last["c"].val = 1
    /\ last["c"].os = <<"pselect", "write", "pselect", "write">>

\* The operations that report a fault of the transport.
FaultOps ==
    {"Read", "Write", "SetBreak", "SetRTS", "SetDTR", "GetCTS", "GetDSR",
     "GetRI", "GetCD", "WaitForChange"}

\* The caller's call ends in this step.
Ends ==
    /\ ncalls' # ncalls \/ call["c"].pc # "idle"
    /\ call'["c"].pc = "idle"

\* C15: when a Read, a Write or a control-line operation ends with
\* SerialException or IOException, is_open_, fd_, port_, the configuration
\* fields, the fields derived from them and the timeout are what they were
\* before the step, and the process holds the same descriptors: a port that
\* was open is still open.
C15_FaultKeepsState ==
    [][(/\ Ends
        /\ last'["c"].op \in FaultOps
        /\ last'["c"].res \in {"serial_error", "io_error"}) =>
          /\ UNCHANGED <<port_, fd_, is_open_, cfgvars, derivedvars,
                         timeout_, os_fds>>
          /\ is_open_ => is_open_']_vars

\* A Read on an open port ended with SerialException after a pselect that
\* reported readiness; the port is still open on the same descriptor.
C15_Witness ==
    /\ call["c"].pc = "idle"
    /\ last["c"].op = "Read"
    /\ last["c"].res = "serial_error"
    /\ last["c"].os = <<"read", "pselect", "read">>
    /\ is_open_
    /\ fd_ \in os_fds

\* C16: WaitForChange called while is_open_ is false returns false in that
\* very step, without blocking and without exception, in the build with
\* TIOCMIWAIT as in the builds that poll.
C16_ClosedWaitReturnsFalse ==
    [][(Starts({"WaitForChange"}) /\ ~is_open_) =>
          /\ call'["c"].pc = "idle"
          /\ last'["c"].res = "ok"
          /\ last'["c"].val = 0]_vars

\* C16 for the builds without TIOCMIWAIT: it holds of them, and the call
\* makes no system call.
C16_ClosedPollReturnsFalse ==
    [][(Starts({"WaitForChange"}) /\ ~is_open_ /\ platform # "linux") =>
          /\ call'["c"].pc = "idle"
          /\ last'["c"].res = "ok"
          /\ last'["c"].val = 0
          /\ last'["c"].os = <<>>]_vars

\* The system calls of an Open up to its last ::open: every one before the
\* last was interrupted.
OnlyInterruptsBefore(os, k) == \A i \in 1..(k - 1) : os[i] = "EINTR"

\* The position in os of the last ::open of the Open: the first entry that
\* is not an interrupt.
LastOpen(os) ==
    IF \E i \in 1..Len(os) : os[i] # "EINTR"
    THEN CHOOSE i \in 1..Len(os) :
             os[i] # "EINTR" /\ OnlyInterruptsBefore(os, i)
    ELSE 0

\* C17: an ::open that fails with EINTR keeps the thread inside Open, with
\* the preconditions of Open still true and fd_ the closed sentinel, so that
\* the next attempt passes them again; an Open that ends never ends on an
\* interrupted ::open: its last ::open succeeded or failed with another
\* errno, and the port is open exactly when it ended without exception; and
\* under fairness of the thread an interrupted Open ends, the interrupts in a
\* row being at most MaxIntr.
C17_InterruptedOpenRetries ==
    /\ [](call["c"].pc = "open_retry" =>
             /\ OpenRefusal = "none"
             /\ fd_ = NoFd
             /\ Len(call["c"].os) >= 1
             /\ OnlyInterruptsBefore(call["c"].os, Len(call["c"].os) + 1))
    /\ [][(Ends /\ last'["c"].op = "Open" /\ last'["c"].os # <<>>) =>
             /\ LastOpen(last'["c"].os) > 0
             /\ last'["c"].res \in
                    {"ok", "too_many_handles", "io_error", "invalid_argument"}
             /\ last'["c"].res = "ok" => is_open_'
             /\ last'["c"].res # "ok" => ~is_open_']_vars
    /\ (call["c"].pc = "open_retry") ~> (call["c"].pc = "idle")

\* An Open whose first ::open was interrupted opened the port at its second
\* attempt.
C17_Witness ==
    /\ call["c"].pc = "idle"
    /\ last["c"].op = "Open"
    /\ last["c"].res = "ok"
    /\ last["c"].os[1] = "EINTR"
    /\ last["c"].os[2] = "open"
    /\ is_open_

\* The errno of the ::open on which the Open with the system calls os ended,
\* "none" when its last ::open succeeded or none was made.
FailedOn(os) ==
    IF os # <<>> /\ os[Len(os)] \in OpenErrnos THEN os[Len(os)] ELSE "none"

\* C18: an Open whose ::open fails with ENFILE or EMFILE ends with the
\* too-many-handles failure, and one whose ::open fails with another errno
\* that is not EINTR ends with the generic IOException; after either,
\* is_open_ is false, fd_ is the closed sentinel, the process holds the
\* descriptors it held, and ReconfigurePort was not run: no tcgetattr and no
\* tcsetattr was issued and the derived fields are unchanged.
C18_OpenFailureKinds ==
    [][(Ends /\ last'["c"].op = "Open") =>
          LET e == FailedOn(last'["c"].os)
          IN  /\ e \in {"ENFILE", "EMFILE"} =>
                     last'["c"].res = "too_many_handles"
              /\ e \in OpenErrnos \ {"EINTR", "ENFILE", "EMFILE"} =>
                     last'["c"].res = "io_error"
              /\ e # "EINTR"
              /\ e # "none" =>
                     /\ ~is_open_'
                     /\ fd_' = NoFd
                     /\ os_fds' = os_fds
                     /\ ~last'["c"].reconf
                     /\ last'["c"].applied = <<>>
                     /\ \A i \in 1..Len(last'["c"].os) :
                            last'["c"].os[i] \in OpenErrnos
                     /\ UNCHANGED <<cfgvars, derivedvars, port_>>]_vars

\* An Open was interrupted once and then failed for want of a free handle in
\* the system: it ended with the too-many-handles failure, the port closed.
C18_Witness ==
    /\ call["c"].pc = "idle"
    /\ last["c"].op = "Open"
    /\ last["c"].res = "too_many_handles"
    /\ last["c"].os = <<"EINTR", "ENFILE">>
    /\ ~is_open_
    /\ fd_ = NoFd

\* C19: whenever the port is open, byte_time_ns_ is the value computed from
\* the present baudrate_, bytesize_, parity_ and stopbits_, whatever setters
\* have been called.
C19_ByteTimeFollowsConfig == is_open_ => byte_time_ns_ \in ByteTimes(Cfg)

\* C19 for the setters that return: a setter that ends without exception on
\* an open port leaves byte_time_ns_ computed from the fields it leaves.
C19_ByteTimeAfterSetterReturns ==
    [][(Starts(SetterOps) /\ is_open_ /\ last'["c"].res = "ok") =>
          byte_time_ns_' \in ByteTimes(Cfg')]_vars

\* The bits a parity adds to a character.
ParityBits(p) == IF p = parity_none THEN 0 ELSE 1

\* floor(1e9 / baud) times the 1 + bytesize + parity bits + sb bits of a
\* character with sb whole stop bits.
FrameTime(c, sb) ==
    (1000000000 \div c.baud) * (1 + c.bytesize + ParityBits(c.parity) + sb)

\* The byte time bt answers the fields c as the formula of C20 has it.
AsFormula(c, bt) ==
    /\ bt > 0
    /\ c.baud > 0
    /\ c.stopbits = stopbits_one => bt = FrameTime(c, 1)
    /\ c.stopbits = stopbits_two => bt = FrameTime(c, 2)
    /\ c.stopbits = stopbits_one_point_five =>
           (FrameTime(c, 1) < bt /\ bt < FrameTime(c, 2))
    /\ \A b \in TimingBauds :
           b > c.baud =>
              \A faster \in ByteTimes([c EXCEPT !.baud = b]) : faster <= bt

\* C20: for every rate ReconfigurePort accepts and every valid character
\* size, parity and number of stop bits, the byte_time_ns_ that a
\* ReconfigurePort which ran to its end leaves is positive, is
\* floor(1e9 / baudrate) * (1 + data bits + parity bits + stop bits) with 0
\* or 1 parity bits, lies strictly between the values for 1 and for 2 stop
\* bits when there are 1.5, and is not below the value of any higher rate
\* with the same framing.
C20_ByteTimeFormula ==
    [][(Starts(SetterOps) /\ last'["c"].reconf /\ last'["c"].res = "ok") =>
          AsFormula(Cfg', byte_time_ns_')]_vars

\* C20 for the rates above 0 and for no parity or odd parity: it holds of
\* them.
C20_ByteTimeOddOrNoParity ==
    [][(/\ Starts(SetterOps)
        /\ last'["c"].reconf
        /\ last'["c"].res = "ok"
        /\ baudrate_' > 0
        /\ parity_' \in {parity_none, parity_odd}) =>
          AsFormula(Cfg', byte_time_ns_')]_vars

\* The last two system calls of thread t's call in progress are both pselect.
WaitedAgain(t) ==
    LET os == call[t].os
    IN  /\ Len(os) >= 2
        /\ os[Len(os)] = "pselect"
        /\ os[Len(os) - 1] = "pselect"

\* C21: inside one Read that has a byte already, a readiness wait of
\* inter_byte_timeout that elapses with no data ends the Read, which returns
\* the bytes it has: no Read that was not interrupted starts a second wait
\* right after a wait for the byte that follows one it holds.
C21_InterByteTimeoutEndsRead ==
    \A t \in Threads :
        ~(/\ call[t].pc = "wait"
          /\ call[t].n >= 1
          /\ call[t].intr = 0
          /\ WaitedAgain(t))

\* C21 for the waits bounded by the deadline of the call: after such a wait
\* elapsed the Read does return, with the bytes it has.
C21_DeadlineWaitEndsRead ==
    [][\A t \in Threads :
         (/\ call[t].pc = "loop"
          /\ call[t].n < call[t].size
          /\ call[t].elapsed >= call[t].total
          /\ call'[t].pc # "loop") =>
            /\ call'[t].pc = "idle"
            /\ last'[t].op = "Read"
            /\ last'[t].res = "ok"
            /\ last'[t].val = call[t].n]_vars

\* C22: Available on a closed port returns 0 and issues no system call; on
\* an open port it issues the one query and returns the count of unread bytes
\* the device holds or throws IOException; it changes neither is_open_, the
\* handle, the descriptors of the process nor the unread bytes.
C22_AvailableCountsUnread ==
    [][Starts({"Available"}) =>
         LET l == last'["c"]
         IN  /\ call'["c"].pc = "idle"
             /\ IF ~is_open_
                THEN l.res = "ok" /\ l.val = 0 /\ l.os = <<>>
                ELSE /\ l.os = <<"ioctl_TIOCINQ">>
                     /\ \/ l.res = "ok" /\ l.val = Len(rxbuf)
                        \/ l.res = "io_error"
             /\ UNCHANGED <<is_open_, fd_, os_fds, rxbuf, sent>>
             /\ ObjectUnchanged]_vars

\* Available returned 0 from a closed port whose leaked descriptor still has
\* unread bytes behind it, and returned the count 2 from an open port.
C22_Witness ==
    /\ last["c"].op = "Available"
    /\ last["c"].res = "ok"
    /\ Len(rxbuf) = 2
    /\ \/ ~is_open_ /\ fd_ \in os_fds /\ last["c"].val = 0
       \/ is_open_ /\ last["c"].val = 2

\* C23: every pselect a Read starts is started with a remaining time above 0
\* and a timeout of at most min(remaining time, inter_byte_timeout), equal to
\* it when the remaining time fits the narrowed width; every pselect a Write
\* starts is started with a remaining time above 0 and a timeout of at most
\* the remaining time; the timeouts are never negative.
C23_WaitsWithinDeadline ==
    [][\A t \in Threads :
         LET c == call[t]
             rem == Remaining(c.total, c.elapsed)
             ibt == timeout_.inter_byte_timeout
             wait == call'[t].until - c.elapsed
         IN  /\ (c.pc = "loop" /\ call'[t].pc = "wait") =>
                  /\ rem > 0
                  /\ wait >= 0
                  /\ wait <= Min(rem, ibt)
                  /\ rem < Wrap => wait = Min(rem, ibt)
             /\ (c.pc = "wloop" /\ call'[t].pc = "wwait") =>
                  /\ rem > 0
                  /\ wait >= 0
                  /\ wait <= rem
             /\ (c.pc \in {"loop", "wloop"} /\ rem <= 0) =>
                  call'[t].pc \in {c.pc, "idle"}]_vars

\* A Read waits with a remaining time of 2^UintBits ms or more, for less than
\* the remaining time and than the inter-byte timeout.
C23_Witness ==
    LET c == call["c"]
        rem == Remaining(c.total, c.elapsed)
    IN  /\ c.pc = "wait"
        /\ c.os[Len(c.os)] = "pselect"
        /\ rem >= Wrap
        /\ c.until - c.elapsed < Min(rem, timeout_.inter_byte_timeout)
        /\ c.until >= c.elapsed

SleptAsStated(t, sleeps, ns) ==
    (call[t].pc = "ready" /\ call'[t].pc = "xfer") =>
        call'[t].slept = IF sleeps THEN ns ELSE 0

\* C25: after a positive readiness Read sleeps exactly when more than one
\* byte remains to be transferred, the inter-byte timeout is Timeout::max()
\* and the bytes available plus the bytes read are fewer than the size asked;
\* it then sleeps byte_time_ns_ times the number of missing bytes; otherwise
\* the transfer follows with no sleep.
C25_CoalescingSleep ==
    [][\A t \in Threads :
         LET c == call[t]
             missing == c.size - (Len(rxbuf) + c.n)
         IN  SleptAsStated(t,
                 /\ c.size - c.n > 1
                 /\ timeout_.inter_byte_timeout = TimeoutMax
                 /\ Len(rxbuf) + c.n < c.size,
                 byte_time_ns_ * missing)]_vars

\* C25 with the size asked in place of the size that remains and for the
\* sleeps below one second, a longer one not being made: it holds.
C25_SleepOfSizeAsked ==
    [][\A t \in Threads :
         LET c == call[t]
             missing == c.size - (Len(rxbuf) + c.n)
         IN  SleptAsStated(t,
                 /\ c.size > 1
                 /\ timeout_.inter_byte_timeout = TimeoutMax
                 /\ Len(rxbuf) + c.n < c.size
                 /\ byte_time_ns_ * missing < 1000000000,
                 byte_time_ns_ * missing)]_vars

\* The last system call of the call with the locals c is a pselect: at the
\* head of Write's loop, the wait before was interrupted.
AfterWait(c) == Len(c.os) >= 1 /\ c.os[Len(c.os)] = "pselect"

\* What an interrupted or failed wait does but for the budget of the retry:
\* an interrupt of Write's pselect takes the call back to the head of the loop
\* with its locals as they were and nothing returned to the caller; a wait of
\* Write ends the call only as a timeout, once the timeout has passed, or
\* with IOException; a readiness check of Read that gives false, interrupted
\* (at any time) or timed out, takes the call back to the head of the loop with
\* the bytes it has.
WaitOutcomes(t) ==
    LET c == call[t]
        d == call'[t]
    IN  /\ (c.pc = "wwait" /\ d.pc = "wloop") =>
             /\ d = [c EXCEPT !.pc = "wloop", !.intr = c.intr + 1]
             /\ UNCHANGED <<last, histvars, rxbuf>>
        /\ (c.pc = "wwait" /\ d.pc = "idle") =>
             /\ last'[t].op = "Write"
             /\ \/ last'[t].res = "io_error"
                \/ /\ last'[t].res = "ok"
                   /\ last'[t].val = c.n
                   /\ c.elapsed >= c.until
        /\ (c.pc = "wait" /\ d.pc = "loop") =>
             /\ \/ d = [c EXCEPT !.pc = "loop", !.intr = c.intr + 1]
                \/ d = [c EXCEPT !.pc = "loop"] /\ c.elapsed >= c.until
             /\ UNCHANGED <<last, histvars, rxbuf>>

\* C26 as stated: besides the outcomes above, the wait of Write that follows
\* an interrupted first wait has the budget the first wait had, the whole
\* total timeout.
C26_InterruptKeepsBudget ==
    [][\A t \in Threads :
         LET c == call[t]
             d == call'[t]
         IN  /\ WaitOutcomes(t)
             /\ (c.pc = "wloop" /\ c.os = <<"pselect">> /\ d.pc # "wloop") =>
                  /\ d.pc = "wwait"
                  /\ d.until - c.elapsed = c.total]_vars

\* C26 with the deadline kept: besides the outcomes above, after an
\* interrupted wait Write tests the same deadline again, waits for what
\* remains of it, the time spent in the interrupted wait being gone, and
\* returns the bytes written when nothing remains.
C26_InterruptKeepsDeadline ==
    [][\A t \in Threads :
         LET c == call[t]
             d == call'[t]
             rem == Remaining(c.total, c.elapsed)
         IN  /\ WaitOutcomes(t)
             /\ (c.pc = "wloop" /\ AfterWait(c) /\ d.pc # "wloop") =>
                  IF rem > 0
                  THEN /\ d.pc = "wwait"
                       /\ d.until - c.elapsed = rem
                       /\ d.total = c.total
                  ELSE /\ d.pc = "idle"
                       /\ last'[t].res = "ok"
                       /\ last'[t].val = c.n]_vars

\* A Write waits again after an interrupt that came 1 ms into its first wait,
\* with less than the total timeout left.
C26_Witness ==
    LET c == call["c"]
    IN  /\ c.pc = "wwait"
        /\ c.os = <<"pselect", "pselect">>
        /\ c.intr = 1
        /\ c.elapsed >= 1
        /\ c.until - c.elapsed < c.total

\* Thread t takes a step of its WaitForChange on the polling path.
PollStep(t) ==
    /\ call[t].pc \in {"query", "poll"}
    /\ call'[t].pc # call[t].pc
    /\ lines' = lines

\* The WaitForChange of thread t ends in this step with the value val.
PollReturns(t, val) ==
    /\ call'[t].pc = "idle"
    /\ last'[t].op = "WaitForChange"
    /\ last'[t].res = "ok"
    /\ last'[t].val = val

\* C27: on the polling path WaitForChange returns true only when a monitored
\* status line has changed since the call began, and a step it takes once
\* another thread has closed the port ends the call with false.
C27_PollWaitsForTransition ==
    [][\A t \in Threads :
         PollStep(t) =>
           /\ PollReturns(t, 1) => call[t].changed
           /\ ~is_open_ => PollReturns(t, 0)]_vars

\* C27 for what the loop does test: it returns true exactly when the query
\* succeeds and finds a monitored line asserted, whether or not the line
\* changed; it returns false exactly when it finds is_open_ false at the head
\* of the loop; and a query made after the port was closed throws.
C27_PollReturnsOnLevel ==
    [][\A t \in Threads :
         PollStep(t) =>
           /\ PollReturns(t, 1) =>
                /\ call[t].pc = "query"
                /\ fd_ \in os_fds
                /\ lines \cap Monitored # {}
           /\ PollReturns(t, 0) <=> (call[t].pc = "poll" /\ ~is_open_)
           /\ (call[t].pc = "query" /\ fd_ \notin os_fds) =>
                /\ call'[t].pc = "idle"
                /\ last'[t].res = "serial_error"]_vars

\* C28: every Write that found the port open starts at the deadline test
\* with nothing issued, and its first system call is a pselect; a Write of
\* one byte or more whose total timeout is 0 returns 0 from that test, with
\* no pselect and no ::write issued and nothing put on the wire, although the
\* device would accept bytes.
C28_WriteTestsDeadlineFirst ==
    [][\A t \in Threads :
         LET c == call[t]
             d == call'[t]
         IN  /\ (c.pc = "idle" /\ d.pc \in WritePcs) =>
                  d.pc = "wloop" /\ d.os = <<>> /\ d.n = 0
             /\ (c.pc \in WritePcs /\ Len(c.os) >= 1) => c.os[1] = "pselect"
             /\ (c.pc = "wloop" /\ c.size > 0 /\ c.total = 0 /\ d.pc # "wloop")
                  => /\ d.pc = "idle"
                     /\ last'[t].op = "Write"
                     /\ last'[t].res = "ok"
                     /\ last'[t].val = 0
                     /\ last'[t].os = <<>>
                     /\ wire' = wire]_vars

\* A Write of two bytes with a total timeout of 0 returned 0 with no system
\* call, on a port whose peer accepts bytes.
C28_Witness ==
    /\ last["c"].op = "Write"
    /\ last["c"].res = "ok"
    /\ last["c"].size = 2
    /\ last["c"].val = 0
    /\ last["c"].os = <<>>
    /\ timeout_.write_timeout_constant + 2 * timeout_.write_timeout_multiplier = 0
    /\ peer = "live"
    /\ fd_ \in os_fds

\* The configuration c holds a value ReconfigurePort rejects whatever the
\* system calls return: a rate without B<rate> constant on a build with no
\* custom-rate call, or an invalid character size, stop bits or parity.
Rejected(c) ==
    \/ c.baud \notin EnumeratedBauds /\ platform = "posix"
    \/ ~ValidByteSize(c.bytesize)
    \/ ~ValidStopBits(c.stopbits)
    \/ ~ValidParity(c.parity)

\* A setter called on an open port whose ReconfigurePort throws rolls nothing
\* back: its field keeps the new value, the other fields, is_open_, the
\* handle and the derived members are as before and tcsetattr was not
\* reached.
NoRollback ==
    (Starts(SetterOps) /\ is_open_) =>
        /\ Cfg' = Stored(last'["c"].op, last'["c"].val)
        /\ is_open_' /\ fd_' = fd_
        /\ last'["c"].res # "ok" =>
             /\ UNCHANGED derivedvars
             /\ last'["c"].applied = <<>>

\* C29 as stated: no rollback, and the setter call that follows a failed
\* setter call on the open port and sets another field fails too.
C29_FailsUntilOverwritten ==
    [][/\ NoRollback
       /\ (/\ Starts(SetterOps)
           /\ is_open_
           /\ last["c"].op \in SetterOps
           /\ last["c"].res # "ok"
           /\ last'["c"].op # last["c"].op) => last'["c"].res # "ok"]_vars

\* C29 for the values that are rejected: no rollback, and while the stored
\* configuration holds a rejected value every setter call on the open port
\* throws, whichever field it sets; a setter throws the invalid-argument
\* failure only then, and otherwise throws only when a system call fails.
C29_RejectedValueStays ==
    [][/\ NoRollback
       /\ (Starts(SetterOps) /\ is_open_) =>
            /\ Rejected(Cfg') => last'["c"].res \in {"invalid_argument",
                                                    "io_error"}
            /\ last'["c"].res = "invalid_argument" => Rejected(Cfg')
            /\ last'["c"].res \in {"ok", "invalid_argument", "io_error"}
            /\ last'["c"].res = "io_error" =>
                 last'["c"].os[Len(last'["c"].os)] # "tcsetattr"]_vars

\* SetFlowcontrol threw the invalid-argument failure on an open port: the
\* value rejected is one an earlier setter call left in another field.
C29_Witness ==
    /\ is_open_
    /\ last["c"].op = "SetFlowcontrol"
    /\ last["c"].res = "invalid_argument"
    /\ Rejected(Cfg)
    /\ byte_time_ns_ = ByteTimeNs(9600, eightbits, parity_none, stopbits_one)

\* Thread t issues a system call on the handle in this step, inside a Read
\* or a Write.
Issues(t) ==
    /\ call[t].pc \in ReadPcs \cup WritePcs
    /\ \/ Len(call'[t].os) > Len(call[t].os)
       \/ call'[t].pc = "idle" /\ Len(last'[t].os) > Len(call[t].os)

\* C30: no pselect, ::read or ::write is issued on the handle by a Read or a
\* Write while is_open_ is false, whatever another thread's Close does while
\* the call is in progress.
C30_NoTransferWhileClosed ==
    [][\A t \in Threads : Issues(t) => is_open_]_vars

\* C30 for the entry of the calls: a Read or a Write gets past its first
\* statement only while is_open_ is true, and a Close leaves the calls in
\* progress where they are.
C30_TestedOnEntryOnly ==
    [][\A t \in Threads :
         /\ (call[t].pc = "idle" /\ call'[t].pc \in ReadPcs \cup WritePcs) =>
              is_open_
         /\ (is_open_ /\ ~is_open_') => call' = call]_vars

\* The caller's RotToQuat has finished.
Converted == last["c"].op = "RotToQuat" /\ last["c"].res # "running"

\* Selector s of ms is a maximum of the four.
IsMaximum(ms, s) == \A i \in 1 .. 4 : DGt(ms[s], ms[i]) \/ ms[s] = ms[i]

\* The selectors sum to 4, the branch taken is that of a maximum of the
\* four, which is above 0, and the call returns.
SelectsPositiveMaximum(c) ==
    /\ DAdd(DAdd(DAdd(c.ms[1], c.ms[2]), c.ms[3]), c.ms[4]) = Fin(8)
    /\ IsMaximum(c.ms, c.val)
    /\ DGt(c.ms[c.val], Zero)
    /\ c.res = "ok"

FiniteMatrix(m) == \A i \in Idx, j \in Idx : m[i][j].k = "fin"

\* C31: RotToQuat never reaches one of its four runtime_error branches: for
\* every argument the selectors m1 .. m4 sum to 4 and the cascade, ties
\* included, takes the branch of a maximum of the four, which is therefore
\* above 0.
C31_RotToQuatNeverThrows ==
    Converted => SelectsPositiveMaximum(last["c"])

\* C31 for the arguments whose entries are all finite (and small enough for
\* nothing to overflow): the selectors sum to 4, the branch is that of a
\* maximum and no runtime_error branch is reached.  Each of the arguments
\* with a NaN or an infinite entry has a NaN among its selectors, falls
\* through to the last branch and throws there.
C31_FiniteNeverThrows ==
    Converted =>
        IF FiniteMatrix(last["c"].m)
        THEN SelectsPositiveMaximum(last["c"])
        ELSE /\ \E i \in 1 .. 4 : last["c"].ms[i] = NaN
             /\ last["c"].val = 4
             /\ last["c"].res = "runtime_error"

\* A rotation by 120 degrees about the diagonal: the four selectors tie at 1
\* and the last branch is taken.
C31_Witness ==
    /\ Converted
    /\ FiniteMatrix(last["c"].m)
    /\ last["c"].ms = <<One, One, One, One>>
    /\ last["c"].val = 4
    /\ last["c"].res = "ok"

====
